---------------------------- MODULE Spec2Model ----------------------------
(***************************************************************************)
(* Gemi inference server (python-inference-server/inference_server.py).    *)
(*                                                                         *)
(* The model follows the execution structure of the program:               *)
(*   - one asyncio event loop thread runs the lifespan task, the           *)
(*     load_model_async task, the endpoint handlers and the body of the    *)
(*     generate_stream generator; whatever runs between two suspension     *)
(*     points holds the loop (variable loop);                              *)
(*   - every streaming job starts one worker Thread running                *)
(*     model.generate, which feeds the job's TextIteratorStreamer queue;   *)
(*     worker threads run concurrently with the loop thread.               *)
(* A yield of generate_stream hands the frame to the response, whose send  *)
(* is awaited: the loop may be released there, so any other task may run   *)
(* before the generator is resumed.  A task created by create_task runs at *)
(* some later turn of the loop, so requests may be handled before the load *)
(* task's first step.                                                      *)
(* download_progress is kept in tenths (0.1 is 1, 1.0 is 10, -1.0 is -10). *)
(*                                                                         *)
(* Specifications:                                                         *)
(*   Spec         inference_server.py                                      *)
(*   FairWorkers  Spec, with the worker threads scheduled fairly           *)
(*   Api          Spec, with the endpoints /api/tags, /api/pull and        *)
(*                /api/show and the shutdown of the server                 *)
(*   Servers      inference_server.py or inference_server_lazy.py (both    *)
(*                listen on 127.0.0.1:11435, so one of them runs)          *)
(*   Compare      the text of one completion of inference_server.py,       *)
(*                answered as a stream and as a single response, with the  *)
(*                counters of both answers                                 *)
(*   OneRequest   one /api/chat request of inference_server.py, from its   *)
(*                body to the calls made to the processor and the model    *)
(*   Sampling     the options of two /api/chat requests handled side by    *)
(*                side, from the bodies to the keyword arguments of        *)
(*                model.generate                                           *)
(*   Simple       simple_server.py: startup load, /api/health, /api/chat   *)
(*                and the chunks of its generate_stream                    *)
(***************************************************************************)
EXTENDS Integers, Sequences, FiniteSets, TLC

\* ------------------------------------------------------------------ bounds
\* requests the server receives (each a GET /api/health or a POST /api/chat)
MaxJobs == 2
\* characters of a completion text whose two responses are compared
MaxTextLen == 3
\* messages of the request followed from body to backend
MaxMessages == 2
\* images of one message of that request
MaxImages == 2
\* clock ticks that pass while a response is made
MaxElapsed == 2
\* characters of a text simple_server.py generates
MaxSimpleTextLen == 25
\* pieces of text the backend generates for the streaming jobs, in all
MaxTokens == 3

Jobs == 1..MaxJobs

\* The i-th piece of text the backend generates for request j.  Neither chat
\* nor generate_stream inspects the text of a piece on its way to a frame, so
\* a piece is represented by its identity.
Token(j, i) == <<"text", j, i>>

\* TextIteratorStreamer.stop_signal
STOP == <<"stop_signal">>

\* --------------------------------------------------------------- variables
VARIABLES
    serving,            \* the lifespan context has been entered (before its yield)
    model,              \* global model: "None" or "loaded"
    processor,          \* global processor: "None" or "loaded"
    device,             \* global device: "None" or "set"
    model_loaded,       \* global model_loaded
    download_progress,  \* global download_progress, in tenths
    loadPc,             \* position of the load_model_async task
    loop,               \* who runs on the event loop thread: Idle, LoadTask or OnLoop(j)
    pc,                 \* per request: position of its handler / generator
    endpoint,           \* per request: "health" (GET /api/health) or "chat" (POST /api/chat)
    stream,             \* per chat request: ChatRequest.stream
    resp,               \* per request: HTTP status and body answered
    calls,              \* per request: backend operations invoked on its behalf
    worker,             \* per request: state of the Thread(target=model.generate)
    produced,           \* per request: tokens the backend put on the job's streamer
    queue,              \* per request: TextIteratorStreamer.text_queue
    frames,             \* per request: frames yielded by generate_stream, in order
    joined,             \* per request: thread.join() has returned
    program,            \* which server script runs (both listen on 127.0.0.1:11435)
    \* inference_server_lazy.py
    lazy_torch,         \* global torch: "None" or "loaded"
    lazy_device,        \* global device: "None" or "set"
    lazy_model,         \* global model: "None" or "loaded"
    lazy_processor,     \* global processor: "None" or "loaded"
    lazy_loop,          \* who runs on the event loop thread: Idle or OnLoop(j)
    lazy_stream,        \* per request: ChatRequest.stream
    lazy_pc,            \* per request: position of chat / generate_stream / load_model
    \* the text of one completion, answered in both ways (inference_server.py)
    prompt_text,        \* decode of the request's input_ids
    completion,         \* the text the backend generates after the prompt
    pending,            \* the part of it the streamer has not handed over yet
    contents,           \* message.content of the done=false frames, in order
    stream_done,        \* the done=true frame has been yielded
    response_text,      \* <<>>, or <<t>>: the non-streaming response has content t
    clock,              \* time.time() in nanoseconds
    started_at,         \* the clock when the two calls began
    input_ids,          \* inputs["input_ids"][0]: the tokens of the templated prompt
    stream_frames,      \* the ChatResponse frames of the streaming response
    response_counters,  \* <<>>, or <<c>>: the counters of the non-streaming response
    \* one /api/chat request on a loaded model, from its body to the backend calls
    request,            \* the body: model given or not, stream, messages
    req_pc,             \* how far the request has got
    req_status,         \* HTTP status answered (0: none yet)
    processed_messages, \* result of process_multimodal_messages
    backend,            \* calls made to the processor and the model, in order
    \* the sampling parameters of the /api/chat requests, per request
    request_options,    \* request.options: given or null, and the dict given
    sampling_stream,    \* request.stream
    sampling_pc,        \* how far the request's options have got
    options,            \* the local options of chat()
    generation_kwargs,  \* the keyword arguments model.generate is called with
    module_defaults,    \* the globals TEMPERATURE, TOP_P, TOP_K, MAX_NEW_TOKENS
    \* simple_server.py
    simple_globals,     \* the globals model, processor, device, download_progress
    simple_run,         \* where startup is, the last /api/health body and /api/chat status
    simple_stream       \* the generate_stream generator: text, i, frames sent, position

\* the variables of inference_server.py
serverVars == <<serving, model, processor, device, model_loaded, download_progress,
                loadPc, loop, pc, endpoint, stream, resp, calls, worker, produced,
                queue, frames, joined>>

\* the variables of inference_server_lazy.py
lazyVars == <<lazy_torch, lazy_device, lazy_model, lazy_processor, lazy_loop,
              lazy_stream, lazy_pc>>

\* the variables of the comparison of the two ways of answering
textVars == <<prompt_text, completion, pending, contents, stream_done, response_text,
              clock, started_at, input_ids, stream_frames, response_counters>>

\* the variables of the single request followed from body to backend
reqVars == <<request, req_pc, req_status, processed_messages, backend>>

\* the variables of the sampling parameters
samplingVars == <<request_options, sampling_stream, sampling_pc, options,
                  generation_kwargs, module_defaults>>

\* the variables of simple_server.py
simpleVars == <<simple_globals, simple_run, simple_stream>>

\* what no action of inference_server.py touches
foreignVars == <<program, lazyVars, textVars, reqVars, samplingVars, simpleVars>>

\* what no action of inference_server_lazy.py touches
lazyForeignVars == <<program, serverVars, textVars, reqVars, samplingVars, simpleVars>>

\* what no step of the text comparison touches
textForeignVars == <<program, serverVars, lazyVars, reqVars, samplingVars, simpleVars>>

\* what no step of the single request touches
reqForeignVars == <<program, serverVars, lazyVars, textVars, samplingVars, simpleVars>>

\* what no step of the sampling parameters touches
samplingForeignVars == <<program, serverVars, lazyVars, textVars, reqVars, simpleVars>>

\* what no action of simple_server.py touches
simpleForeignVars == <<program, serverVars, lazyVars, textVars, reqVars, samplingVars>>

vars == <<serverVars, foreignVars>>

lifecycleVars == <<model, processor, device, model_loaded, download_progress, loadPc>>
jobVars == <<pc, endpoint, stream, resp, calls, worker, produced, queue, frames,
             joined>>

\* ----------------------------------------------------------------- helpers
\* values of loop: nothing runs, the load task runs, the handler or generator
\* of request j runs
Idle == <<"idle">>
LoadTask == <<"load">>
OnLoop(j) == <<"job", j>>

\* a response is its HTTP status and its body; no response yet is status 0
NoResponse == [status |-> 0, body |-> <<"none">>]

\* f"{download_progress:.0%}": the fraction times 100, no decimals, then "%".
FormatPercent(p) == <<p * 10, "%">>

\* detail of the 503 raised while the model is loading
LoadingDetail(p) == <<"detail", "Model loading... Progress: ", FormatPercent(p)>>

FailedDetail == <<"detail", "Model failed to load">>

\* TokenFrame with done=True set inside the token loop
TokenFrameDone(token) == [type |-> "chat", content |-> <<token>>, done |-> "true"]

\* ChatResponse(message=ChatMessage(role="assistant", content=token), done=False)
TokenFrame(token) == [type |-> "chat", content |-> <<token>>, done |-> "false"]

\* final_response: ChatResponse(message=ChatMessage(content=""), done=True, counters)
FinalFrame == [type |-> "chat", content |-> <<>>, done |-> "true"]

\* error_response = {"error": str(e), "type": "generation_error"}: no done field
ErrorFrame == [type |-> "generation_error", content |-> <<>>, done |-> "absent"]

\* inference_server.py imported (globals of lines 63-68), nothing started
InitServer ==
    /\ serving = FALSE
    /\ model = "None"
    /\ processor = "None"
    /\ device = "None"
    /\ model_loaded = FALSE
    /\ download_progress = 0
    /\ loadPc = "not_created"
    /\ loop = Idle
    /\ pc = [j \in Jobs |-> "none"]
    /\ endpoint = [j \in Jobs |-> "none"]
    /\ stream = [j \in Jobs |-> FALSE]
    /\ resp = [j \in Jobs |-> NoResponse]
    /\ calls = [j \in Jobs |-> {}]
    /\ worker = [j \in Jobs |-> "none"]
    /\ produced = [j \in Jobs |-> <<>>]
    /\ queue = [j \in Jobs |-> <<>>]
    /\ frames = [j \in Jobs |-> <<>>]
    /\ joined = [j \in Jobs |-> FALSE]

\* inference_server_lazy.py imported (globals of lines 24-29), no request yet
InitLazy ==
    /\ lazy_torch = "None"
    /\ lazy_device = "None"
    /\ lazy_model = "None"
    /\ lazy_processor = "None"
    /\ lazy_loop = Idle
    /\ lazy_stream = [j \in Jobs |-> FALSE]
    /\ lazy_pc = [j \in Jobs |-> "none"]

\* no completion text is under comparison
InitText ==
    /\ prompt_text = <<>>
    /\ completion = <<>>
    /\ pending = <<>>
    /\ contents = <<>>
    /\ stream_done = FALSE
    /\ response_text = <<>>
    /\ clock = 0
    /\ started_at = 0
    /\ input_ids = <<>>
    /\ stream_frames = <<>>
    /\ response_counters = <<>>

\* no request is being followed
InitRequest ==
    /\ request = [model_given |-> FALSE, stream |-> FALSE, messages |-> <<>>]
    /\ req_pc = "none"
    /\ req_status = 0
    /\ processed_messages = <<>>
    /\ backend = <<>>

\* the requests whose options are followed
SamplingRequests == {1, 2}

\* line 73: TEMPERATURE = 0.7, in tenths like every temperature here
TEMPERATURE == 7
\* line 74: TOP_P = 0.9, in tenths like every top_p here
TOP_P == 9
\* line 75
TOP_K == 40
\* line 72
MAX_NEW_TOKENS == 2048

\* lines 72-75: the module's globals as assigned at import
ModuleDefaults ==
    [temperature |-> TEMPERATURE, top_p |-> TOP_P, top_k |-> TOP_K,
     max_new_tokens |-> MAX_NEW_TOKENS]

\* no request's options are being followed
InitSampling ==
    /\ request_options = [r \in SamplingRequests |-> [given |-> FALSE, dict |-> <<>>]]
    /\ sampling_stream = [r \in SamplingRequests |-> FALSE]
    /\ sampling_pc = [r \in SamplingRequests |-> "none"]
    /\ options = [r \in SamplingRequests |-> <<>>]
    /\ generation_kwargs = [r \in SamplingRequests |-> <<>>]
    /\ module_defaults = ModuleDefaults

\* simple_server.py imported (globals of lines 30-33), nothing started
InitSimple ==
    /\ simple_globals = [model |-> "None", processor |-> "None", device |-> "None",
                         download_progress |-> 0]
    /\ simple_run = [startup |-> "not_started", health |-> <<>>, chat |-> 0]
    /\ simple_stream = [text |-> <<>>, i |-> 0, frames |-> <<>>, pc |-> "none"]

\* the server started is inference_server.py
Init ==
    /\ program = "inference_server"
    /\ InitServer
    /\ InitLazy
    /\ InitText
    /\ InitRequest
    /\ InitSampling
    /\ InitSimple

\* ------------------------------------------------------ lifespan and load
\* lifespan up to its yield: asyncio.create_task(load_model_async())
Lifespan ==
    /\ program = "inference_server"
    /\ ~serving
    /\ loadPc = "not_created"
    /\ serving' = TRUE
    /\ loadPc' = "scheduled"
    /\ UNCHANGED <<model, processor, device, model_loaded, download_progress,
                   loop>>
    /\ UNCHANGED jobVars
    /\ UNCHANGED foreignVars

\* first step of the task: device = get_device(); download_progress = 0.1
LoadBegin ==
    /\ loadPc = "scheduled"
    /\ loop = Idle
    /\ loop' = LoadTask
    /\ device' = "set"
    /\ download_progress' = 1
    /\ loadPc' = "at178"
    /\ UNCHANGED <<serving, model, processor, model_loaded>>
    /\ UNCHANGED jobVars
    /\ UNCHANGED foreignVars

\* processor = AutoProcessor.from_pretrained(...) returns; download_progress = 0.2
LoadProcessor ==
    /\ loadPc = "at178"
    /\ processor' = "loaded"
    /\ download_progress' = 2
    /\ loadPc' = "at187"
    /\ UNCHANGED <<serving, model, device, model_loaded, loop>>
    /\ UNCHANGED jobVars
    /\ UNCHANGED foreignVars

\* LoadConfigure writing 0.1 again in place of 0.3
LoadConfigureBackTo1 ==
    /\ loadPc = "at187"
    /\ download_progress' = 1
    /\ loadPc' = "at193"
    /\ UNCHANGED <<serving, model, processor, device, model_loaded, loop>>
    /\ UNCHANGED jobVars
    /\ UNCHANGED foreignVars

\* torch_dtype chosen; download_progress = 0.3
LoadConfigure ==
    /\ loadPc = "at187"
    /\ download_progress' = 3
    /\ loadPc' = "at193"
    /\ UNCHANGED <<serving, model, processor, device, model_loaded, loop>>
    /\ UNCHANGED jobVars
    /\ UNCHANGED foreignVars

\* model = AutoModelForCausalLM.from_pretrained(...) returns; download_progress = 0.8
LoadWeights ==
    /\ loadPc = "at193"
    /\ model' = "loaded"
    /\ download_progress' = 8
    /\ loadPc' = "at205"
    /\ UNCHANGED <<serving, processor, device, model_loaded, loop>>
    /\ UNCHANGED jobVars
    /\ UNCHANGED foreignVars

\* LoadToDevice with model_loaded = True written although model.to has
\* left no model
LoadToDeviceLosesModel ==
    /\ loadPc = "at205"
    /\ download_progress' = 10
    /\ model_loaded' = TRUE
    /\ model' = "None"
    /\ loadPc' = "at215"
    /\ UNCHANGED <<serving, processor, device, loop>>
    /\ UNCHANGED jobVars
    /\ UNCHANGED foreignVars

\* model.to(device); model.eval(); download_progress = 1.0; model_loaded = True
LoadToDevice ==
    /\ loadPc = "at205"
    /\ download_progress' = 10
    /\ model_loaded' = TRUE
    /\ loadPc' = "at215"
    /\ UNCHANGED <<serving, model, processor, device, loop>>
    /\ UNCHANGED jobVars
    /\ UNCHANGED foreignVars

\* await test_model() returns: the task is finished
TestModelPass ==
    /\ loadPc = "at215"
    /\ loadPc' = "done"
    /\ loop' = Idle
    /\ UNCHANGED <<serving, model, processor, device, model_loaded,
                   download_progress>>
    /\ UNCHANGED jobVars
    /\ UNCHANGED foreignVars

\* LoadFail with the except clause also setting model_loaded = False
LoadFailUnloads ==
    /\ loadPc \in {"at178", "at193", "at205", "at215"}
    /\ download_progress' = -10
    /\ model_loaded' = FALSE
    /\ loadPc' = "failed"
    /\ loop' = Idle
    /\ UNCHANGED <<serving, model, processor, device>>
    /\ UNCHANGED jobVars
    /\ UNCHANGED foreignVars

\* a backend call of the load (from_pretrained, model.to, or the generate of
\* test_model) raises: except Exception: download_progress = -1.0; raise
LoadFail ==
    /\ loadPc \in {"at178", "at193", "at205", "at215"}
    /\ download_progress' = -10
    /\ loadPc' = "failed"
    /\ loop' = Idle
    /\ UNCHANGED <<serving, model, processor, device, model_loaded>>
    /\ UNCHANGED jobVars
    /\ UNCHANGED foreignVars

\* ---------------------------------------------------------------- requests
\* requests are numbered in arrival order: j is the next one to arrive
IsNextRequest(j) ==
    /\ pc[j] = "none"
    /\ IF j = 1 THEN TRUE ELSE pc[j - 1] # "none"

\* a request is handled when the server is up and the event loop is free
Arrives(j) ==
    /\ serving
    /\ loop = Idle
    /\ IsNextRequest(j)

\* ------------------------------------------------------------- /api/health
\* HealthBody with the status taken from download_progress (1.0 is healthy)
HealthBodyByProgress == <<"health", IF download_progress = 10 THEN "healthy" ELSE "loading",
                          model_loaded, download_progress>>

\* HealthResponse(status, model_loaded, ..., download_progress)
HealthBody == <<"health", IF model_loaded THEN "healthy" ELSE "loading",
                model_loaded, download_progress>>

HealthCheck(j) ==
    /\ Arrives(j)
    /\ endpoint' = [endpoint EXCEPT ![j] = "health"]
    /\ resp' = [resp EXCEPT ![j] = [status |-> 200, body |-> HealthBody]]
    /\ pc' = [pc EXCEPT ![j] = "answered"]
    /\ UNCHANGED <<serving, loop, stream, calls, worker, produced, queue, frames, joined>>
    /\ UNCHANGED lifecycleVars
    /\ UNCHANGED foreignVars

\* --------------------------------------------------------------- /api/chat
\* outputs the backend may produce for one non-streaming generation
Outputs(j) == {[i \in 1..n |-> Token(j, i)] : n \in 0..MaxTokens}

\* NotLoadedResponse with the failure test written download_progress <= 0
NotLoadedResponseLe(p) ==
    IF p <= 0
    THEN [status |-> 503, body |-> FailedDetail]
    ELSE [status |-> 503, body |-> LoadingDetail(p)]

\* chat, lines 416-422: the 503 raised when model_loaded is false
NotLoadedResponse(p) ==
    IF p < 0
    THEN [status |-> 503, body |-> FailedDetail]
    ELSE [status |-> 503, body |-> LoadingDetail(p)]

\* chat answering every request on a loaded model with a StreamingResponse,
\* whatever ChatRequest.stream says
ChatStreamsAlways(j, s, templateOk) ==
    /\ Arrives(j)
    /\ endpoint' = [endpoint EXCEPT ![j] = "chat"]
    /\ stream' = [stream EXCEPT ![j] = s]
    /\ IF ~model_loaded
       THEN /\ resp' = [resp EXCEPT ![j] = NotLoadedResponse(download_progress)]
            /\ pc' = [pc EXCEPT ![j] = "rejected"]
            /\ UNCHANGED <<calls, loop>>
       ELSE /\ resp' = [resp EXCEPT ![j] = [status |-> 200, body |-> <<"event-stream">>]]
            /\ pc' = [pc EXCEPT ![j] = "created"]
            /\ UNCHANGED <<calls, loop>>
    /\ UNCHANGED <<serving, worker, produced, queue, frames, joined>>
    /\ UNCHANGED lifecycleVars
    /\ UNCHANGED foreignVars

\* chat(request), up to the point where it returns, raises, or enters the
\* blocking model.generate call of the non-streaming path.  templateOk says
\* whether process_multimodal_messages / apply_chat_template return normally.
Chat(j, s, templateOk) ==
    /\ Arrives(j)
    /\ endpoint' = [endpoint EXCEPT ![j] = "chat"]
    /\ stream' = [stream EXCEPT ![j] = s]
    /\ IF ~model_loaded
       THEN /\ resp' = [resp EXCEPT ![j] = NotLoadedResponse(download_progress)]
            /\ pc' = [pc EXCEPT ![j] = "rejected"]
            /\ UNCHANGED <<calls, loop>>
       ELSE IF s
       THEN \* return StreamingResponse(generate_stream(...)): generator not started
            /\ resp' = [resp EXCEPT ![j] = [status |-> 200, body |-> <<"event-stream">>]]
            /\ pc' = [pc EXCEPT ![j] = "created"]
            /\ UNCHANGED <<calls, loop>>
       ELSE IF templateOk
       THEN \* inputs built; model.generate(...) entered on the loop thread
            /\ calls' = [calls EXCEPT ![j] = {"apply_chat_template", "generate"}]
            /\ pc' = [pc EXCEPT ![j] = "sync_generating"]
            /\ loop' = OnLoop(j)
            /\ UNCHANGED resp
       ELSE \* except Exception: raise HTTPException(500, detail=str(e))
            /\ calls' = [calls EXCEPT ![j] = {"apply_chat_template"}]
            /\ resp' = [resp EXCEPT ![j] = [status |-> 500, body |-> <<"detail", "error">>]]
            /\ pc' = [pc EXCEPT ![j] = "failed500"]
            /\ UNCHANGED loop
    /\ UNCHANGED <<serving, worker, produced, queue, frames, joined>>
    /\ UNCHANGED lifecycleVars
    /\ UNCHANGED foreignVars

\* non-streaming path: model.generate returns out; decode; return ChatResponse(done=True)
ChatSyncReturn(j, out) ==
    /\ pc[j] = "sync_generating"
    /\ loop = OnLoop(j)
    /\ resp' = [resp EXCEPT ![j] = [status |-> 200, body |-> <<"content", out>>]]
    /\ pc' = [pc EXCEPT ![j] = "answered"]
    /\ loop' = Idle
    /\ UNCHANGED <<serving, endpoint, stream, calls, worker, produced, queue, frames, joined>>
    /\ UNCHANGED lifecycleVars
    /\ UNCHANGED foreignVars

\* ChatSyncRaise with an except clause that marks the model as not loaded
ChatSyncRaiseUnloads(j) ==
    /\ pc[j] = "sync_generating"
    /\ loop = OnLoop(j)
    /\ resp' = [resp EXCEPT ![j] = [status |-> 500, body |-> <<"detail", "error">>]]
    /\ pc' = [pc EXCEPT ![j] = "failed500"]
    /\ loop' = Idle
    /\ model_loaded' = FALSE
    /\ UNCHANGED <<serving, endpoint, stream, calls, worker, produced, queue, frames, joined>>
    /\ UNCHANGED <<model, processor, device, download_progress, loadPc>>
    /\ UNCHANGED foreignVars

\* non-streaming path: model.generate raises; HTTPException(500, detail=str(e))
ChatSyncRaise(j) ==
    /\ pc[j] = "sync_generating"
    /\ loop = OnLoop(j)
    /\ resp' = [resp EXCEPT ![j] = [status |-> 500, body |-> <<"detail", "error">>]]
    /\ pc' = [pc EXCEPT ![j] = "failed500"]
    /\ loop' = Idle
    /\ UNCHANGED <<serving, endpoint, stream, calls, worker, produced, queue, frames, joined>>
    /\ UNCHANGED lifecycleVars
    /\ UNCHANGED foreignVars

\* --------------------------------------------------------- generate_stream
\* StreamStart with a failure before thread.start() answered as HTTP 500 in
\* place of the error frame
StreamStartAnswers500(j, templateOk) ==
    /\ pc[j] = "created"
    /\ loop = Idle
    /\ IF templateOk
       THEN /\ calls' = [calls EXCEPT ![j] = {"apply_chat_template", "thread"}]
            /\ worker' = [worker EXCEPT ![j] = "running"]
            /\ pc' = [pc EXCEPT ![j] = "iterating"]
            /\ loop' = OnLoop(j)
            /\ UNCHANGED resp
       ELSE /\ calls' = [calls EXCEPT ![j] = {"apply_chat_template"}]
            /\ resp' = [resp EXCEPT ![j] = [status |-> 500, body |-> <<"detail", "error">>]]
            /\ pc' = [pc EXCEPT ![j] = "failed500"]
            /\ UNCHANGED <<worker, loop>>
    /\ UNCHANGED <<serving, endpoint, stream, frames, produced, queue, joined>>
    /\ UNCHANGED lifecycleVars
    /\ UNCHANGED foreignVars

\* first resumption of the generator: lines 290-331.  Either a call before
\* thread.start() raises and the except clause yields the error frame, or the
\* worker thread is started and the body enters `for token in streamer`.
StreamStart(j, templateOk) ==
    /\ pc[j] = "created"
    /\ loop = Idle
    /\ IF templateOk
       THEN /\ calls' = [calls EXCEPT ![j] = {"apply_chat_template", "thread"}]
            /\ worker' = [worker EXCEPT ![j] = "running"]
            /\ pc' = [pc EXCEPT ![j] = "iterating"]
            /\ loop' = OnLoop(j)
            /\ UNCHANGED frames
       ELSE /\ calls' = [calls EXCEPT ![j] = {"apply_chat_template"}]
            /\ frames' = [frames EXCEPT ![j] = Append(@, ErrorFrame)]
            /\ pc' = [pc EXCEPT ![j] = "yielded_error"]
            /\ UNCHANGED <<worker, loop>>
    /\ UNCHANGED <<serving, endpoint, stream, resp, produced, queue, joined>>
    /\ UNCHANGED lifecycleVars
    /\ UNCHANGED foreignVars

\* StreamNext with an empty queue taken for the end of the stream (a
\* non-blocking get whose Empty is read as exhaustion)
StreamNextEmptyIsEnd(j) ==
    /\ pc[j] = "iterating"
    /\ loop = OnLoop(j)
    /\ IF queue[j] = <<>> \/ Head(queue[j]) = STOP
       THEN /\ frames' = [frames EXCEPT ![j] = Append(@, FinalFrame)]
            /\ pc' = [pc EXCEPT ![j] = "yielded_done"]
            /\ queue' = [queue EXCEPT ![j] = IF @ = <<>> THEN @ ELSE Tail(@)]
       ELSE /\ frames' = [frames EXCEPT ![j] = Append(@, TokenFrame(Head(queue[j])))]
            /\ pc' = [pc EXCEPT ![j] = "yielded_token"]
            /\ queue' = [queue EXCEPT ![j] = Tail(@)]
    /\ loop' = Idle
    /\ UNCHANGED <<serving, endpoint, stream, resp, calls, worker, produced, joined>>
    /\ UNCHANGED lifecycleVars
    /\ UNCHANGED foreignVars

\* StreamNext with content=generated_text, the text accumulated so far, in
\* place of content=token
StreamNextAccumulated(j) ==
    /\ pc[j] = "iterating"
    /\ loop = OnLoop(j)
    /\ queue[j] # <<>>
    /\ queue' = [queue EXCEPT ![j] = Tail(@)]
    /\ IF Head(queue[j]) = STOP
       THEN /\ frames' = [frames EXCEPT ![j] = Append(@, FinalFrame)]
            /\ pc' = [pc EXCEPT ![j] = "yielded_done"]
       ELSE /\ frames' = [frames EXCEPT ![j] = Append(@,
                  [type |-> "chat",
                   content |-> IF @ = <<>> THEN <<Head(queue[j])>>
                               ELSE @[Len(@)].content \o <<Head(queue[j])>>,
                   done |-> "false"])]
            /\ pc' = [pc EXCEPT ![j] = "yielded_token"]
    /\ loop' = Idle
    /\ UNCHANGED <<serving, endpoint, stream, resp, calls, worker, produced, joined>>
    /\ UNCHANGED lifecycleVars
    /\ UNCHANGED foreignVars

\* streamer.__next__ returns: text_queue.get() (no timeout) hands over the
\* head of the queue.  A token is yielded as a done=false frame; the stop
\* signal ends the for loop and the final frame is yielded.  The yield
\* suspends the generator, which releases the event loop.
StreamNext(j) ==
    /\ pc[j] = "iterating"
    /\ loop = OnLoop(j)
    /\ queue[j] # <<>>
    /\ queue' = [queue EXCEPT ![j] = Tail(@)]
    /\ IF Head(queue[j]) = STOP
       THEN /\ frames' = [frames EXCEPT ![j] = Append(@, FinalFrame)]
            /\ pc' = [pc EXCEPT ![j] = "yielded_done"]
       ELSE /\ frames' = [frames EXCEPT ![j] = Append(@, TokenFrame(Head(queue[j])))]
            /\ pc' = [pc EXCEPT ![j] = "yielded_token"]
    /\ loop' = Idle
    /\ UNCHANGED <<serving, endpoint, stream, resp, calls, worker, produced, joined>>
    /\ UNCHANGED lifecycleVars
    /\ UNCHANGED foreignVars

\* StreamResume for a generator that survives the close: a closed generator
\* is resumed like one suspended after a token frame
StreamResumeAfterClose(j) ==
    /\ pc[j] \in {"yielded_token", "yielded_done", "yielded_error", "closed"}
    /\ loop = Idle
    /\ IF pc[j] \in {"yielded_token", "closed"}
       THEN pc' = [pc EXCEPT ![j] = "iterating"] /\ loop' = OnLoop(j)
       ELSE IF pc[j] = "yielded_done"
       THEN pc' = [pc EXCEPT ![j] = "joining"] /\ loop' = OnLoop(j)
       ELSE pc' = [pc EXCEPT ![j] = "finished"] /\ loop' = loop
    /\ UNCHANGED <<serving, endpoint, stream, resp, calls, worker, produced, queue, frames,
                   joined>>
    /\ UNCHANGED lifecycleVars
    /\ UNCHANGED foreignVars

\* the response iterator asks for the next chunk: the generator resumes after
\* its yield.  After a token frame it polls the streamer again, after the
\* final frame it calls thread.join(), after the error frame it returns.
StreamResume(j) ==
    /\ pc[j] \in {"yielded_token", "yielded_done", "yielded_error"}
    /\ loop = Idle
    /\ IF pc[j] = "yielded_token"
       THEN pc' = [pc EXCEPT ![j] = "iterating"] /\ loop' = OnLoop(j)
       ELSE IF pc[j] = "yielded_done"
       THEN pc' = [pc EXCEPT ![j] = "joining"] /\ loop' = OnLoop(j)
       ELSE pc' = [pc EXCEPT ![j] = "finished"] /\ loop' = loop
    /\ UNCHANGED <<serving, endpoint, stream, resp, calls, worker, produced, queue, frames,
                   joined>>
    /\ UNCHANGED lifecycleVars
    /\ UNCHANGED foreignVars

\* thread.join() returns once the worker thread is no longer alive
JoinReturn(j) ==
    /\ pc[j] = "joining"
    /\ loop = OnLoop(j)
    /\ worker[j] \in {"finished", "crashed"}
    /\ joined' = [joined EXCEPT ![j] = TRUE]
    /\ pc' = [pc EXCEPT ![j] = "finished"]
    /\ loop' = Idle
    /\ UNCHANGED <<serving, endpoint, stream, resp, calls, worker, produced, queue, frames>>
    /\ UNCHANGED lifecycleVars
    /\ UNCHANGED foreignVars

\* the client goes away while the generator is suspended at a yield: the
\* generator is closed (GeneratorExit / CancelledError are not Exception)
Disconnect(j) ==
    /\ pc[j] \in {"yielded_token", "yielded_done", "yielded_error"}
    /\ pc' = [pc EXCEPT ![j] = "closed"]
    /\ UNCHANGED <<serving, loop, endpoint, stream, resp, calls, worker, produced, queue,
                   frames, joined>>
    /\ UNCHANGED lifecycleVars
    /\ UNCHANGED foreignVars

\* ---------------------------------- worker thread: model.generate(streamer=...)
RECURSIVE TotalProduced(_)
\* pieces of text generated so far for the streaming jobs 1..n
TotalProduced(n) == IF n = 0 THEN 0 ELSE Len(produced[n]) + TotalProduced(n - 1)

\* the decode loop hands its next piece of text to the streamer
WorkerPut(j) ==
    /\ worker[j] = "running"
    /\ TotalProduced(MaxJobs) < MaxTokens
    /\ produced' = [produced EXCEPT ![j] = Append(@, Token(j, Len(@) + 1))]
    /\ queue' = [queue EXCEPT ![j] = Append(@, Token(j, Len(produced[j]) + 1))]
    /\ UNCHANGED <<serving, loop, pc, endpoint, stream, resp, calls, worker, frames, joined>>
    /\ UNCHANGED lifecycleVars
    /\ UNCHANGED foreignVars

\* WorkerEnd on a streamer whose queue holds one item at most: the put of
\* the stop signal waits until the consumer has emptied the queue
WorkerEndWaitsForConsumer(j) ==
    /\ worker[j] = "running"
    /\ queue[j] = <<>>
    /\ queue' = [queue EXCEPT ![j] = Append(@, STOP)]
    /\ worker' = [worker EXCEPT ![j] = "ended"]
    /\ UNCHANGED <<serving, loop, pc, endpoint, stream, resp, calls, produced, frames, joined>>
    /\ UNCHANGED lifecycleVars
    /\ UNCHANGED foreignVars

\* generation is complete: streamer.end() puts the stop signal
WorkerEnd(j) ==
    /\ worker[j] = "running"
    /\ queue' = [queue EXCEPT ![j] = Append(@, STOP)]
    /\ worker' = [worker EXCEPT ![j] = "ended"]
    /\ UNCHANGED <<serving, loop, pc, endpoint, stream, resp, calls, produced, frames, joined>>
    /\ UNCHANGED lifecycleVars
    /\ UNCHANGED foreignVars

\* model.generate returns and the thread exits
WorkerReturn(j) ==
    /\ worker[j] = "ended"
    /\ worker' = [worker EXCEPT ![j] = "finished"]
    /\ UNCHANGED <<serving, loop, pc, endpoint, stream, resp, calls, produced, queue, frames,
                   joined>>
    /\ UNCHANGED lifecycleVars
    /\ UNCHANGED foreignVars

\* model.generate raises inside the thread: the thread dies, streamer.end()
\* is never called and nothing more is put on the queue
WorkerRaise(j) ==
    /\ worker[j] = "running"
    /\ worker' = [worker EXCEPT ![j] = "crashed"]
    /\ UNCHANGED <<serving, loop, pc, endpoint, stream, resp, calls, produced, queue, frames,
                   joined>>
    /\ UNCHANGED lifecycleVars
    /\ UNCHANGED foreignVars

Next ==
    \/ Lifespan
    \/ LoadBegin
    \/ LoadProcessor
    \/ LoadConfigure
    \/ LoadWeights
    \/ LoadToDevice
    \/ TestModelPass
    \/ LoadFail
    \/ \E j \in Jobs : HealthCheck(j)
    \/ \E j \in Jobs, s \in BOOLEAN, templateOk \in BOOLEAN : Chat(j, s, templateOk)
    \/ \E j \in Jobs : \E out \in Outputs(j) : ChatSyncReturn(j, out)
    \/ \E j \in Jobs : ChatSyncRaise(j)
    \/ \E j \in Jobs, templateOk \in BOOLEAN : StreamStart(j, templateOk)
    \/ \E j \in Jobs : StreamNext(j)
    \/ \E j \in Jobs : StreamResume(j)
    \/ \E j \in Jobs : JoinReturn(j)
    \/ \E j \in Jobs : Disconnect(j)
    \/ \E j \in Jobs : WorkerPut(j)
    \/ \E j \in Jobs : WorkerEnd(j)
    \/ \E j \in Jobs : WorkerReturn(j)
    \/ \E j \in Jobs : WorkerRaise(j)

Spec == Init /\ [][Next]_vars

\* ------------------------------------------- /api/tags, /api/pull, /api/show
\* line 71
MODEL_ID == "google/gemma-3n-e4b-it"

\* list_models answering from download_progress instead of model_loaded
ModelsBodyByProgress ==
    <<"models", IF download_progress > 0 THEN <<MODEL_ID>> ELSE <<>>>>

\* list_models, lines 398-410: ModelsResponse(models=[]) when not loaded,
\* else the one ModelInfo(name=MODEL_ID, ...)
ModelsBody == <<"models", IF ~model_loaded THEN <<>> ELSE <<MODEL_ID>>>>

ListModels(j) ==
    /\ Arrives(j)
    /\ endpoint' = [endpoint EXCEPT ![j] = "tags"]
    /\ resp' = [resp EXCEPT ![j] = [status |-> 200, body |-> ModelsBody]]
    /\ pc' = [pc EXCEPT ![j] = "answered"]
    /\ UNCHANGED <<serving, loop, stream, calls, worker, produced, queue, frames, joined>>
    /\ UNCHANGED lifecycleVars
    /\ UNCHANGED foreignVars

\* pull_model reporting "Model already loaded" once the progress is 1.0
PullBodyByProgress ==
    IF download_progress = 10
    THEN <<"pull", "Model already loaded">>
    ELSE <<"pull", "Model loading on startup", download_progress>>

\* pull_model, lines 483-489: {"status": "Model already loaded"}, or
\* {"status": "Model loading on startup", "progress": download_progress}
PullBody ==
    IF model_loaded
    THEN <<"pull", "Model already loaded">>
    ELSE <<"pull", "Model loading on startup", download_progress>>

PullModel(j) ==
    /\ Arrives(j)
    /\ endpoint' = [endpoint EXCEPT ![j] = "pull"]
    /\ resp' = [resp EXCEPT ![j] = [status |-> 200, body |-> PullBody]]
    /\ pc' = [pc EXCEPT ![j] = "answered"]
    /\ UNCHANGED <<serving, loop, stream, calls, worker, produced, queue, frames, joined>>
    /\ UNCHANGED lifecycleVars
    /\ UNCHANGED foreignVars

\* show_model, lines 494-507: 503 "Model not loaded", or the model's details
ShowResponse ==
    IF ~model_loaded
    THEN [status |-> 503, body |-> <<"detail", "Model not loaded">>]
    ELSE [status |-> 200, body |-> <<"show", MODEL_ID>>]

ShowModel(j) ==
    /\ Arrives(j)
    /\ endpoint' = [endpoint EXCEPT ![j] = "show"]
    /\ resp' = [resp EXCEPT ![j] = ShowResponse]
    /\ pc' = [pc EXCEPT ![j] = "answered"]
    /\ UNCHANGED <<serving, loop, stream, calls, worker, produced, queue, frames, joined>>
    /\ UNCHANGED lifecycleVars
    /\ UNCHANGED foreignVars

\* a request that is being handled: its handler, generator or worker join
\* has not come to its end
InFlight(j) == pc[j] \notin {"none", "answered", "rejected", "failed500", "finished", "closed"}

\* lifespan after its yield, lines 129-134, run when the server stops after the
\* requests in flight have ended: model = None; processor = None.  A load
\* task that has not begun is cancelled with the loop.
Shutdown ==
    /\ serving
    /\ loop = Idle
    /\ \A j \in Jobs : ~InFlight(j)
    /\ serving' = FALSE
    /\ model' = "None"
    /\ processor' = "None"
    /\ loadPc' = IF loadPc = "scheduled" THEN "cancelled" ELSE loadPc
    /\ UNCHANGED <<device, model_loaded, download_progress, loop>>
    /\ UNCHANGED jobVars
    /\ UNCHANGED foreignVars

ApiNext ==
    \/ \E j \in Jobs : ListModels(j)
    \/ \E j \in Jobs : PullModel(j)
    \/ \E j \in Jobs : ShowModel(j)
    \/ Shutdown

\* inference_server.py with every endpoint that reads the load's state, from
\* start to shutdown
Api == Init /\ [][Next \/ ApiNext]_vars

\* ======================================================= inference_server_lazy.py
\* One event loop thread runs chat and the body of generate_stream; load_model
\* is an ordinary function, so the handler or generator that calls it holds
\* the loop until load_model has returned or raised.
LazyIsNextRequest(j) ==
    /\ lazy_pc[j] = "none"
    /\ IF j = 1 THEN TRUE ELSE lazy_pc[j - 1] # "none"

\* load_model entered whatever the value of model
LazyNeedsLoadAlways == TRUE

\* load_model, line 106: if model is None
LazyNeedsLoad == lazy_model = "None"

\* where a caller of load_model() goes: into the body of the if, or past it
LazyLoadEntry == IF LazyNeedsLoad THEN "at110" ELSE "loaded"

\* request j executes the body of load_model's if (lines 107-158)
LazyInLoad(j) == lazy_pc[j] \in {"at110", "at123", "at133", "at148"}

\* LazyLoadRaise with the except clause resetting processor only
LazyLoadRaiseKeepsModel(j) ==
    /\ lazy_model' = lazy_model
    /\ lazy_processor' = "None"
    /\ lazy_pc' = [lazy_pc EXCEPT ![j] = IF lazy_stream[j] THEN "yielded_error"
                                         ELSE "failed500"]
    /\ lazy_loop' = Idle

\* load_model, lines 154-158: model = None; processor = None; raise.  The
\* caller's handler turns the exception into HTTP 500 (chat, line 358) or into
\* an error chunk (generate_stream, lines 278-281).
LazyLoadRaise(j) ==
    /\ lazy_model' = "None"
    /\ lazy_processor' = "None"
    /\ lazy_pc' = [lazy_pc EXCEPT ![j] = IF lazy_stream[j] THEN "yielded_error"
                                         ELSE "failed500"]
    /\ lazy_loop' = Idle

\* chat(request): a streaming request gets its StreamingResponse (the
\* generator is not started yet); a non-streaming one calls load_model()
LazyChat(j, s) ==
    /\ program = "inference_server_lazy"
    /\ lazy_loop = Idle
    /\ LazyIsNextRequest(j)
    /\ lazy_stream' = [lazy_stream EXCEPT ![j] = s]
    /\ IF s
       THEN /\ lazy_pc' = [lazy_pc EXCEPT ![j] = "created"]
            /\ UNCHANGED lazy_loop
       ELSE /\ lazy_pc' = [lazy_pc EXCEPT ![j] = LazyLoadEntry]
            /\ lazy_loop' = OnLoop(j)
    /\ UNCHANGED <<lazy_torch, lazy_device, lazy_model, lazy_processor>>
    /\ UNCHANGED lazyForeignVars

\* first resumption of generate_stream: load_model() is called (line 213)
LazyStreamStart(j) ==
    /\ lazy_pc[j] = "created"
    /\ lazy_loop = Idle
    /\ lazy_pc' = [lazy_pc EXCEPT ![j] = LazyLoadEntry]
    /\ lazy_loop' = OnLoop(j)
    /\ UNCHANGED <<lazy_torch, lazy_device, lazy_model, lazy_processor, lazy_stream>>
    /\ UNCHANGED lazyForeignVars

\* lazy_load_ml_libraries(): nothing to do when torch is set; otherwise the
\* imports and the choice of device succeed, or import torch raises, or a
\* later import raises with torch already assigned and device still None
LazyLoadLibraries(j, outcome) ==
    /\ lazy_pc[j] = "at110"
    /\ IF lazy_torch # "None" \/ outcome = "ok"
       THEN /\ lazy_torch' = "loaded"
            /\ lazy_device' = IF lazy_torch # "None" THEN lazy_device ELSE "set"
            /\ lazy_pc' = [lazy_pc EXCEPT ![j] = "at123"]
            /\ UNCHANGED <<lazy_model, lazy_processor, lazy_loop>>
       ELSE /\ lazy_torch' = IF outcome = "torch_raises" THEN "None" ELSE "loaded"
            /\ UNCHANGED lazy_device
            /\ LazyLoadRaise(j)
    /\ UNCHANGED lazy_stream
    /\ UNCHANGED lazyForeignVars

\* processor = AutoProcessor.from_pretrained(...) returns or raises
LazyLoadProcessor(j, ok) ==
    /\ lazy_pc[j] = "at123"
    /\ IF ok
       THEN /\ lazy_processor' = "loaded"
            /\ lazy_pc' = [lazy_pc EXCEPT ![j] = "at133"]
            /\ UNCHANGED <<lazy_model, lazy_loop>>
       ELSE LazyLoadRaise(j)
    /\ UNCHANGED <<lazy_torch, lazy_device, lazy_stream>>
    /\ UNCHANGED lazyForeignVars

\* device.type is read (AttributeError when device is None), then
\* model = AutoModelForCausalLM.from_pretrained(...) returns or raises
LazyLoadModel(j, ok) ==
    /\ lazy_pc[j] = "at133"
    /\ IF ok /\ lazy_device # "None"
       THEN /\ lazy_model' = "loaded"
            /\ lazy_pc' = [lazy_pc EXCEPT ![j] = "at148"]
            /\ UNCHANGED <<lazy_processor, lazy_loop>>
       ELSE LazyLoadRaise(j)
    /\ UNCHANGED <<lazy_torch, lazy_device, lazy_stream>>
    /\ UNCHANGED lazyForeignVars

\* model.to(device) / model.eval() return and load_model returns, or raise
LazyLoadFinish(j, ok) ==
    /\ lazy_pc[j] = "at148"
    /\ IF ok
       THEN /\ lazy_pc' = [lazy_pc EXCEPT ![j] = "loaded"]
            /\ UNCHANGED <<lazy_model, lazy_processor, lazy_loop>>
       ELSE LazyLoadRaise(j)
    /\ UNCHANGED <<lazy_torch, lazy_device, lazy_stream>>
    /\ UNCHANGED lazyForeignVars

\* chat after load_model(): processor(...), model.generate(...), decode, and
\* the ChatResponse is returned; or one of them raises: HTTP 500
LazyGenerate(j, ok) ==
    /\ lazy_pc[j] = "loaded"
    /\ ~lazy_stream[j]
    /\ lazy_pc' = [lazy_pc EXCEPT ![j] = IF ok THEN "answered" ELSE "failed500"]
    /\ lazy_loop' = Idle
    /\ UNCHANGED <<lazy_torch, lazy_device, lazy_model, lazy_processor, lazy_stream>>
    /\ UNCHANGED lazyForeignVars

\* generate_stream after load_model(): processor(...) and thread.start(), then
\* the generator waits in `for token in streamer`; or a call raises and the
\* error chunk is yielded
LazyStreamBegin(j, ok) ==
    /\ lazy_pc[j] = "loaded"
    /\ lazy_stream[j]
    /\ IF ok
       THEN lazy_pc' = [lazy_pc EXCEPT ![j] = "iterating"] /\ UNCHANGED lazy_loop
       ELSE lazy_pc' = [lazy_pc EXCEPT ![j] = "yielded_error"] /\ lazy_loop' = Idle
    /\ UNCHANGED <<lazy_torch, lazy_device, lazy_model, lazy_processor, lazy_stream>>
    /\ UNCHANGED lazyForeignVars

\* a chunk is yielded (a token chunk, the final chunk or "[DONE]")
LazyStreamYield(j) ==
    /\ lazy_pc[j] = "iterating"
    /\ lazy_pc' = [lazy_pc EXCEPT ![j] = "yielded"]
    /\ lazy_loop' = Idle
    /\ UNCHANGED <<lazy_torch, lazy_device, lazy_model, lazy_processor, lazy_stream>>
    /\ UNCHANGED lazyForeignVars

\* the generator is resumed after a yield: it goes on, or (after "[DONE]" or
\* after the error chunk) it returns
LazyStreamResume(j, more) ==
    /\ lazy_pc[j] \in {"yielded", "yielded_error"}
    /\ lazy_loop = Idle
    /\ IF more /\ lazy_pc[j] = "yielded"
       THEN lazy_pc' = [lazy_pc EXCEPT ![j] = "iterating"] /\ lazy_loop' = OnLoop(j)
       ELSE lazy_pc' = [lazy_pc EXCEPT ![j] = "finished"] /\ UNCHANGED lazy_loop
    /\ UNCHANGED <<lazy_torch, lazy_device, lazy_model, lazy_processor, lazy_stream>>
    /\ UNCHANGED lazyForeignVars

\* the client goes away while the generator is suspended at a yield
LazyDisconnect(j) ==
    /\ lazy_pc[j] \in {"yielded", "yielded_error"}
    /\ lazy_pc' = [lazy_pc EXCEPT ![j] = "closed"]
    /\ UNCHANGED <<lazy_torch, lazy_device, lazy_model, lazy_processor, lazy_loop,
                   lazy_stream>>
    /\ UNCHANGED lazyForeignVars

LazyNext ==
    \/ \E j \in Jobs, s \in BOOLEAN : LazyChat(j, s)
    \/ \E j \in Jobs : LazyStreamStart(j)
    \/ \E j \in Jobs, outcome \in {"ok", "torch_raises", "later_import_raises"} :
          LazyLoadLibraries(j, outcome)
    \/ \E j \in Jobs, ok \in BOOLEAN : LazyLoadProcessor(j, ok)
    \/ \E j \in Jobs, ok \in BOOLEAN : LazyLoadModel(j, ok)
    \/ \E j \in Jobs, ok \in BOOLEAN : LazyLoadFinish(j, ok)
    \/ \E j \in Jobs, ok \in BOOLEAN : LazyGenerate(j, ok)
    \/ \E j \in Jobs, ok \in BOOLEAN : LazyStreamBegin(j, ok)
    \/ \E j \in Jobs : LazyStreamYield(j)
    \/ \E j \in Jobs, more \in BOOLEAN : LazyStreamResume(j, more)
    \/ \E j \in Jobs : LazyDisconnect(j)

\* either server script is started: both bind 127.0.0.1:11435, so one runs
InitAny ==
    /\ program \in {"inference_server", "inference_server_lazy"}
    /\ InitServer
    /\ InitLazy
    /\ InitText
    /\ InitRequest
    /\ InitSampling
    /\ InitSimple

Servers == InitAny /\ [][Next \/ LazyNext]_vars

\* ============================================================ simple_server.py
\* The startup event runs load_model to its end, or to its failure, before any
\* request is served.  chat generates the whole text on the event loop thread
\* and, for stream=true, hands it to generate_stream, which cuts it in chunks.
\* download_progress is kept in tenths, a text is a sequence of characters.

\* line 161: characters per chunk
chunk_size == 10

\* the texts the backend generates: one of each length, of varied characters
\* or of one repeated character
SimpleTexts ==
    UNION {{[k \in 1..n |-> k % 7], [k \in 1..n |-> 0]} : n \in 0..MaxSimpleTextLen}

\* simple_server.py is the script started
InitSimpleServer ==
    /\ program = "simple_server"
    /\ InitServer
    /\ InitLazy
    /\ InitText
    /\ InitRequest
    /\ InitSampling
    /\ InitSimple

\* startup_event calls load_model, lines 50-59: device chosen;
\* download_progress = 0.1
SimpleStartup ==
    /\ program = "simple_server"
    /\ simple_run.startup = "not_started"
    /\ simple_globals' = [simple_globals EXCEPT !.device = "set", !.download_progress = 1]
    /\ simple_run' = [simple_run EXCEPT !.startup = "at65"]
    /\ UNCHANGED simple_stream
    /\ UNCHANGED simpleForeignVars

\* load_model, lines 78-81: download_progress = 0.0; raise; startup_event
\* (lines 88-89) logs the exception and the server goes on to serve
SimpleLoadFail ==
    /\ simple_globals' = [simple_globals EXCEPT !.download_progress = 0]
    /\ simple_run' = [simple_run EXCEPT !.startup = "failed"]

\* line 65: processor = AutoProcessor.from_pretrained(model_id) returns
\* (download_progress = 0.3) or raises
SimpleLoadProcessor(ok) ==
    /\ simple_run.startup = "at65"
    /\ IF ok
       THEN /\ simple_globals' = [simple_globals EXCEPT !.processor = "loaded",
                                                        !.download_progress = 3]
            /\ simple_run' = [simple_run EXCEPT !.startup = "at69"]
       ELSE SimpleLoadFail
    /\ UNCHANGED simple_stream
    /\ UNCHANGED simpleForeignVars

\* lines 69-73: model = AutoModelForConditionalGeneration.from_pretrained(...)
\* returns or raises
SimpleLoadModel(ok) ==
    /\ simple_run.startup = "at69"
    /\ IF ok
       THEN /\ simple_globals' = [simple_globals EXCEPT !.model = "loaded"]
            /\ simple_run' = [simple_run EXCEPT !.startup = "at74"]
       ELSE SimpleLoadFail
    /\ UNCHANGED simple_stream
    /\ UNCHANGED simpleForeignVars

\* lines 74-75: model.eval() returns (download_progress = 1.0) or raises
SimpleLoadEval(ok) ==
    /\ simple_run.startup = "at74"
    /\ IF ok
       THEN /\ simple_globals' = [simple_globals EXCEPT !.download_progress = 10]
            /\ simple_run' = [simple_run EXCEPT !.startup = "done"]
       ELSE SimpleLoadFail
    /\ UNCHANGED simple_stream
    /\ UNCHANGED simpleForeignVars

\* requests are served once the startup event has returned
SimpleServing == simple_run.startup \in {"done", "failed"}

\* health_check, lines 94-100: status, model_loaded, download_progress
SimpleHealthBody ==
    <<IF simple_globals.model # "None" THEN "healthy" ELSE "loading",
      simple_globals.model # "None",
      simple_globals.download_progress>>

SimpleHealthCheck ==
    /\ SimpleServing
    /\ simple_run' = [simple_run EXCEPT !.health = SimpleHealthBody]
    /\ UNCHANGED <<simple_globals, simple_stream>>
    /\ UNCHANGED simpleForeignVars

\* chat, lines 105-156: 503 without a model, 400 without a user message with
\* text; else the text is generated (or a backend call raises: 500) and is
\* answered whole, or handed to generate_stream as a StreamingResponse
SimpleChat(s, user_message, ok, generated_text) ==
    /\ SimpleServing
    /\ simple_stream.pc \notin {"created", "yielded"}
    /\ IF simple_globals.model = "None"
       THEN /\ simple_run' = [simple_run EXCEPT !.chat = 503]
            /\ UNCHANGED simple_stream
       ELSE IF ~user_message
       THEN /\ simple_run' = [simple_run EXCEPT !.chat = 400]
            /\ UNCHANGED simple_stream
       ELSE IF ~ok
       THEN /\ simple_run' = [simple_run EXCEPT !.chat = 500]
            /\ UNCHANGED simple_stream
       ELSE /\ simple_run' = [simple_run EXCEPT !.chat = 200]
            /\ IF s
               THEN simple_stream' = [text |-> generated_text, i |-> 0,
                                      frames |-> <<>>, pc |-> "created"]
               ELSE UNCHANGED simple_stream
    /\ UNCHANGED simple_globals
    /\ UNCHANGED simpleForeignVars

\* the slice text[i:i + chunk_size], i counted from 0
Chunk(text, i) ==
    SubSeq(text, i + 1, IF i + chunk_size < Len(text) THEN i + chunk_size ELSE Len(text))

\* variant: done only when the chunk ends before the end of the text's last
\* full window
ChunkDoneStrict(text, i) == i + chunk_size > Len(text)

\* line 170: "done": i + chunk_size >= len(text)
ChunkDone(text, i) == i + chunk_size >= Len(text)

\* generate_stream, lines 162-173: the generator is resumed; the next i of
\* range(0, len(text), chunk_size) gives a frame, which is yielded, or the
\* range is exhausted and the generator returns
SimpleStreamNext ==
    /\ simple_stream.pc \in {"created", "yielded"}
    /\ IF simple_stream.i < Len(simple_stream.text)
       THEN simple_stream' =
                [simple_stream EXCEPT
                    !.frames = Append(@, [content |-> Chunk(simple_stream.text, simple_stream.i),
                                          done |-> ChunkDone(simple_stream.text, simple_stream.i)]),
                    !.i = @ + chunk_size,
                    !.pc = "yielded"]
       ELSE simple_stream' = [simple_stream EXCEPT !.pc = "returned"]
    /\ UNCHANGED <<simple_globals, simple_run>>
    /\ UNCHANGED simpleForeignVars

\* the client goes away while the generator is suspended: it is closed
SimpleDisconnect ==
    /\ simple_stream.pc = "yielded"
    /\ simple_stream' = [simple_stream EXCEPT !.pc = "closed"]
    /\ UNCHANGED <<simple_globals, simple_run>>
    /\ UNCHANGED simpleForeignVars

SimpleNext ==
    \/ SimpleStartup
    \/ \E ok \in BOOLEAN : SimpleLoadProcessor(ok)
    \/ \E ok \in BOOLEAN : SimpleLoadModel(ok)
    \/ \E ok \in BOOLEAN : SimpleLoadEval(ok)
    \/ SimpleHealthCheck
    \/ \E s, user_message, ok \in BOOLEAN : \E generated_text \in SimpleTexts :
            SimpleChat(s, user_message, ok, generated_text)
    \/ SimpleStreamNext
    \/ SimpleDisconnect

Simple == InitSimpleServer /\ [][SimpleNext]_vars

\* =========================================== one completion, answered both ways
\* The same messages at temperature 0 give the same completion text in both
\* paths of /api/chat.  The streaming path yields it piece by piece as the
\* streamer (skip_prompt=True) hands it over; the non-streaming path decodes
\* the whole output sequence, prompt included, and cuts the response out.
Whitespace == {" ", "\n"}
Chars == {"a"} \cup Whitespace

Texts == UNION {[1..n -> Chars] : n \in 0..MaxTextLen}
Prompts == {<<>>, <<"p", " ">>}

RECURSIVE LStrip(_)
LStrip(s) == IF s # <<>> /\ Head(s) \in Whitespace THEN LStrip(Tail(s)) ELSE s

RECURSIVE RStrip(_)
RStrip(s) ==
    IF s # <<>> /\ s[Len(s)] \in Whitespace THEN RStrip(SubSeq(s, 1, Len(s) - 1)) ELSE s

\* str.strip(): leading and trailing whitespace removed
Strip(s) == RStrip(LStrip(s))

\* chat, line 463: response_text = generated_text[len(prompt_text):].strip()
ResponseText(generated_text, prompt) ==
    Strip(SubSeq(generated_text, Len(prompt) + 1, Len(generated_text)))

RECURSIVE Concat(_)
\* the concatenation of a sequence of texts
Concat(ts) == IF ts = <<>> THEN <<>> ELSE Head(ts) \o Concat(Tail(ts))

\* the length of the first word of a text that starts with no whitespace
RECURSIVE WordLen(_)
WordLen(s) == IF s = <<>> \/ Head(s) \in Whitespace THEN 0 ELSE 1 + WordLen(Tail(s))

\* str.split(): the words between runs of whitespace
RECURSIVE Split(_)
Split(text) ==
    LET s == LStrip(text)
    IN  IF s = <<>> THEN <<>>
        ELSE <<SubSeq(s, 1, WordLen(s))>> \o Split(SubSeq(s, WordLen(s) + 1, Len(s)))

\* variant: every character counts
EvalCountOfCharacters(generated_text) == Len(generated_text)

\* lines 355 and 471: eval_count=len(generated_text.split())
EvalCount(generated_text) == Len(Split(generated_text))

\* lines 341-345: a done=false ChatResponse; the three counters keep their
\* default None (<<>>)
ContentFrame(token) ==
    [content |-> token, done |-> FALSE, total_duration |-> <<>>,
     eval_count |-> <<>>, prompt_eval_count |-> <<>>]

\* lines 349-357: the done=true ChatResponse with its three counters
CountersFrame(total_duration, eval_count, prompt_eval_count) ==
    [content |-> <<>>, done |-> TRUE, total_duration |-> <<total_duration>>,
     eval_count |-> <<eval_count>>, prompt_eval_count |-> <<prompt_eval_count>>]

\* values of time.time() * 1e9 when a call begins: time since the epoch
StartClocks == {1000, 2000}

\* token sequences apply_chat_template gives for a prompt
InputIds == {<<1>>, <<1, 2, 3>>}

\* a request and the completion text the backend gives for it
InitCompare ==
    /\ program = "inference_server"
    /\ InitServer
    /\ InitLazy
    /\ InitRequest
    /\ InitSampling
    /\ InitSimple
    /\ prompt_text \in Prompts
    /\ completion \in Texts
    /\ pending = completion
    /\ contents = <<>>
    /\ stream_done = FALSE
    /\ response_text = <<>>
    /\ clock \in StartClocks
    /\ started_at = clock
    /\ input_ids \in InputIds
    /\ stream_frames = <<>>
    /\ response_counters = <<>>

\* time passes while the calls run
Tick ==
    /\ ~(stream_done /\ response_text # <<>>)
    /\ clock - started_at < MaxElapsed
    /\ clock' = clock + 1
    /\ UNCHANGED <<prompt_text, completion, pending, contents, stream_done,
                   response_text, started_at, input_ids, stream_frames,
                   response_counters>>
    /\ UNCHANGED textForeignVars

\* generate_stream, lines 335-346: the streamer hands over the next piece of
\* the completion (n characters) and it is yielded as content of a done=false frame
StreamFrame(n) ==
    /\ ~stream_done
    /\ n \in 1..Len(pending)
    /\ contents' = Append(contents, SubSeq(pending, 1, n))
    /\ stream_frames' = Append(stream_frames, ContentFrame(SubSeq(pending, 1, n)))
    /\ pending' = SubSeq(pending, n + 1, Len(pending))
    /\ UNCHANGED <<prompt_text, completion, stream_done, response_text, clock,
                   started_at, input_ids, response_counters>>
    /\ UNCHANGED textForeignVars

\* generate_stream, lines 349-359: the streamer is exhausted; final frame
StreamFinal ==
    /\ ~stream_done
    /\ pending = <<>>
    /\ stream_done' = TRUE
    /\ stream_frames' =
           Append(stream_frames,
                  CountersFrame(clock, EvalCount(Concat(contents)), Len(input_ids)))
    /\ UNCHANGED <<prompt_text, completion, pending, contents, response_text, clock,
                   started_at, input_ids, response_counters>>
    /\ UNCHANGED textForeignVars

\* chat, lines 460-473: generated_text is the decode of prompt and completion
\* together; the response carries what follows the prompt, stripped
NonStreamingResponse ==
    /\ response_text = <<>>
    /\ response_text' = <<ResponseText(prompt_text \o completion, prompt_text)>>
    /\ response_counters' =
           <<[total_duration |-> <<clock>>,
              eval_count |-> <<EvalCount(response_text'[1])>>,
              prompt_eval_count |-> <<Len(input_ids)>>]>>
    /\ UNCHANGED <<prompt_text, completion, pending, contents, stream_done, clock,
                   started_at, input_ids, stream_frames>>
    /\ UNCHANGED textForeignVars

CompareNext ==
    \/ Tick
    \/ \E n \in 1..MaxTextLen : StreamFrame(n)
    \/ StreamFinal
    \/ NonStreamingResponse

Compare == InitCompare /\ [][CompareNext]_vars

\* ------------------------------------------------------ derived observations
IsPrefix(s, t) == Len(s) <= Len(t) /\ SubSeq(t, 1, Len(s)) = s

\* the done=false frames of request j, in emission order
TokenFrames(j) == SelectSeq(frames[j], LAMBDA f : f.done = "false")

\* what the done=false frames would be if every produced piece of text became
\* exactly one frame, in production order
OneFramePerToken(j) == [i \in 1..Len(produced[j]) |-> TokenFrame(produced[j][i])]

DoneCount(j) == Cardinality({i \in 1..Len(frames[j]) : frames[j][i].done = "true"})
DoneEmitted(j) == DoneCount(j) > 0
ErrorCount(j) == Cardinality({i \in 1..Len(frames[j]) : frames[j][i] = ErrorFrame})

\* the generator of request j sits in text_queue.get() and nothing is queued
WaitingForToken(j) == pc[j] = "iterating" /\ queue[j] = <<>>

\* a model.generate call for request j is executing (worker thread or loop thread)
Generating(j) == worker[j] \in {"running", "ended"} \/ pc[j] = "sync_generating"

\* load_model_async has returned normally: loaded, self-test passed
Ready == loadPc = "done"

LoadInProgress == loadPc \in {"at178", "at187", "at193", "at205", "at215"}

\* -------------------------------------------------------------------- C1
\* C1 (as amended): in every streaming response at most one frame has
\* done=true and no frame follows it; a stream whose generator has returned
\* without an error frame has exactly one done=true frame.
C1_DoneAtMostOnceAndLast ==
    \A j \in Jobs :
        /\ DoneCount(j) <= 1
        /\ \A i \in 1..Len(frames[j]) : frames[j][i].done = "true" => i = Len(frames[j])
        /\ (pc[j] = "finished" /\ ErrorCount(j) = 0) => DoneCount(j) = 1

\* a stream that delivered all its tokens, then the done frame, and returned
C1_Witness ==
    \E j \in Jobs :
        /\ pc[j] = "finished"
        /\ Len(frames[j]) >= 3
        /\ frames[j][Len(frames[j])] = FinalFrame

\* C1 as stated (on a server whose load succeeded): every streaming response
\* that has ended, whether or not generation raised, has exactly one
\* done=true frame.
C1_ExactlyOneDoneAlways ==
    Ready => \A j \in Jobs : pc[j] = "finished" => DoneCount(j) = 1

\* -------------------------------------------------------------------- C2
\* C2: when generation raises, the stream gets exactly one error frame and
\* ends; the consumer never waits forever on the token iterator, that is,
\* whenever it waits on an empty queue the worker thread is still alive to
\* put a token or the stop signal.  Stated for a server whose load succeeded.
C2_ErrorFrameAndNoHang ==
    Ready => \A j \in Jobs :
        /\ WaitingForToken(j) => worker[j] = "running"
        /\ (pc[j] = "finished" /\ worker[j] \in {"none", "crashed"})
           => (ErrorCount(j) = 1 /\ frames[j][Len(frames[j])] = ErrorFrame)

\* -------------------------------------------------------------------- C3
\* C3 (as amended): the done=true frame is emitted only after the token
\* iterator is exhausted (the worker has called streamer.end() and every
\* queued token has been forwarded); thread.join() is called, and returns,
\* only after the done=true frame has been emitted.
C3_DoneAfterExhaustionJoinAfterDone ==
    \A j \in Jobs :
        /\ DoneEmitted(j) => /\ worker[j] \in {"ended", "finished"}
                             /\ queue[j] = <<>>
                             /\ Len(TokenFrames(j)) = Len(produced[j])
        /\ (pc[j] = "joining" \/ joined[j]) => DoneEmitted(j)

\* the done frame is out while the worker thread is still alive and unjoined
C3_Witness ==
    \E j \in Jobs :
        /\ pc[j] = "yielded_done"
        /\ worker[j] = "ended"
        /\ ~joined[j]
        /\ Len(produced[j]) >= 2

\* C3 as stated (on a server whose load succeeded): when the done=true frame
\* is emitted, thread.join has returned.
C3_DoneOnlyAfterJoin ==
    Ready => \A j \in Jobs : DoneEmitted(j) => joined[j]

\* -------------------------------------------------------------------- C4
\* C4: the done=false frames of a job are, in order, one frame per token its
\* worker put on its streamer (a prefix while the stream runs, all of them
\* once the done frame is out), also when two jobs stream at the same time.
C4_FramesAreTheTokensInOrder ==
    \A j \in Jobs :
        /\ IsPrefix(TokenFrames(j), OneFramePerToken(j))
        /\ DoneEmitted(j) => TokenFrames(j) = OneFramePerToken(j)

\* two jobs streaming at once, each with frames delivered, one of them complete
C4_Witness ==
    \E j, k \in Jobs :
        /\ j # k
        /\ pc[j] = "yielded_token" /\ Len(TokenFrames(j)) = 2
        /\ pc[k] = "yielded_done" /\ Len(TokenFrames(k)) = 1
        /\ worker[j] = "running"

\* -------------------------------------------------------------------- C5
\* C5: a handler never sees model_loaded true unless the self-test passed,
\* and a failed load leaves model_loaded false with download_progress -1.0.
C5_ReadyOnlyAfterSelfTest ==
    /\ (loop = Idle /\ model_loaded) => loadPc = "done"
    /\ loadPc = "failed" => (~model_loaded /\ download_progress = -10)

\* -------------------------------------------------------------------- C6
\* C6: a chat request handled while model_loaded is false and
\* download_progress >= 0 is answered 503 with the current progress as a
\* percentage, and no processor call, generate call or worker thread is
\* made for it, then or later.
C6_LoadingChatIs503WithProgress ==
    /\ [][\A j \in Jobs :
            (pc[j] = "none" /\ endpoint'[j] = "chat"
                /\ ~model_loaded /\ download_progress >= 0)
            => /\ pc'[j] = "rejected"
               /\ resp'[j] = [status |-> 503,
                              body |-> <<"detail", "Model loading... Progress: ",
                                         <<download_progress * 10, "%">> >>]
               /\ calls'[j] = {}
               /\ worker'[j] = "none"]_vars
    /\ [](\A j \in Jobs :
            pc[j] = "rejected" => (calls[j] = {} /\ worker[j] = "none" /\ frames[j] = <<>>))

\* a request was rejected with the loading message while the load was pending
C6_Witness ==
    \E j \in Jobs :
        /\ pc[j] = "rejected"
        /\ resp[j] = [status |-> 503, body |-> LoadingDetail(0)]

\* -------------------------------------------------------------------- C7
\* C7: at no time are two model.generate calls executing concurrently
\* (stated for a server whose load succeeded).
C7_GenerateCallsSerialized ==
    Ready => Cardinality({j \in Jobs : Generating(j)}) <= 1

\* -------------------------------------------------------------------- C8
\* C8: while a streaming job waits for its next token, another handler
\* (GET /api/health) can run on the event loop (stated for a server whose
\* load succeeded).
C8_LoopFreeWhileWaitingForToken ==
    Ready => \A j, k \in Jobs :
        (WaitingForToken(j) /\ IsNextRequest(k)) => ENABLED HealthCheck(k)

\* -------------------------------------------------------------------- C9
\* C9: while load_model_async is in progress, GET /api/health can be handled
\* (and so can observe the intermediate download_progress).
C9_LoopFreeWhileLoading ==
    \A k \in Jobs : (LoadInProgress /\ IsNextRequest(k)) => ENABLED HealthCheck(k)

\* ------------------------------------------------------------------- C10
\* C10: once the load has failed, download_progress stays -1.0 and
\* model_loaded stays false, no load is started again, and every chat request
\* handled from then on is answered 503 "Model failed to load".
C10_FailedIsTerminal ==
    [][loadPc = "failed" =>
        /\ loadPc' = "failed"
        /\ download_progress' = -10
        /\ ~model_loaded'
        /\ \A j \in Jobs :
              (pc[j] = "none" /\ endpoint'[j] = "chat")
              => resp'[j] = [status |-> 503, body |-> FailedDetail]]_vars

\* ------------------------------------------------------------------- C11
\* C11: at most one execution of the load routine is in progress at any
\* time, and no load is started while the model is loading or ready.  In
\* inference_server.py the load task is created only once, by lifespan, and
\* its body is entered only from the created task; in inference_server_lazy.py
\* a request enters the body of load_model only when model is None and no
\* other request is inside it.
C11_OneLoadAtATime ==
    /\ [](Cardinality({j \in Jobs : LazyInLoad(j)}) <= 1)
    /\ [][\A j \in Jobs :
            (~LazyInLoad(j) /\ LazyInLoad(j)')
            => (lazy_model = "None" /\ \A k \in Jobs : ~LazyInLoad(k))]_vars
    /\ [][(loadPc' = "scheduled" /\ loadPc # "scheduled")
            => (loadPc = "not_created" /\ ~serving)]_vars
    /\ [][(LoadInProgress' /\ ~LoadInProgress)
            => (loadPc = "scheduled" /\ ~model_loaded)]_vars

\* a request is loading the model while another chat request, which will call
\* load_model too, is waiting for the event loop
C11_Witness ==
    \E j, k \in Jobs :
        /\ j # k
        /\ lazy_pc[j] = "at148"
        /\ lazy_pc[k] = "created"

\* ------------------------------------------------------------------- C12
\* C12: while the load is in progress download_progress never decreases:
\* every step that does not end in the failed state leaves download_progress
\* at least as large as it was, and no step of a request handler, generator
\* or worker thread changes download_progress.
C12_ProgressMonotoneWhileLoading ==
    /\ [][loadPc' # "failed" => download_progress' >= download_progress]_vars
    /\ [][jobVars' # jobVars => download_progress' = download_progress]_vars

\* the load has written all its progress values, after a request was handled
C12_Witness ==
    /\ loadPc = "at215"
    /\ download_progress = 10
    /\ \E j \in Jobs : pc[j] # "none"

\* ------------------------------------------------------------------- C13
\* C13: for the same messages at temperature 0, the concatenation of the
\* contents of the done=false frames of the streaming response equals the
\* content of the non-streaming response, whatever the completion text.
C13_StreamedTextEqualsResponse ==
    (stream_done /\ response_text # <<>>) => Concat(contents) = response_text[1]

C15_NoFrameAfterDisconnect ==
    [][\A j \in Jobs :
          pc[j] = "closed" => (pc'[j] = "closed" /\ frames'[j] = frames[j])]_vars

\* the client left after the first token frame; the worker has since
\* finished, leaving a token and the stop signal unconsumed
C15_Witness ==
    \E j \in Jobs :
        /\ pc[j] = "closed"
        /\ Len(frames[j]) = 1
        /\ Len(queue[j]) >= 2
        /\ worker[j] = "finished"

\* ------------------------------------------------------------------- C16
\* The worker threads are scheduled by the operating system, independently
\* of the event loop, and the claim supposes that model.generate is finite:
\* as long as some worker thread can call streamer.end() or return, one of
\* them does.
FairWorkers ==
    Spec /\ WF_worker(\E j \in Jobs : WorkerEnd(j) \/ WorkerReturn(j))

\* C16: every worker thread started by generate_stream eventually
\* terminates (returns or dies of an exception), whatever the consumer does,
\* also when the generator was closed in mid-stream and the tokens left on
\* the queue are never consumed: from some point on no worker thread is
\* alive.
C16_WorkersTerminate ==
    <>[](\A j \in Jobs : worker[j] \notin {"running", "ended"})

\* a worker thread ran to its end after the client had left, with tokens
\* and the stop signal left on the queue and thread.join() never called
C16_Witness ==
    \E j \in Jobs :
        /\ pc[j] = "closed"
        /\ worker[j] = "finished"
        /\ ~joined[j]
        /\ Len(produced[j]) = 2
        /\ Len(TokenFrames(j)) = 1

\* ------------------------------------------------------------------- C17
\* C17: a non-streaming generate call that does not return does not stop
\* the server: while the call of request j is outstanding, the request that
\* arrives next (GET /api/health) can be handled (stated for a server whose
\* load succeeded).
C17_StuckGenerateDoesNotStopServer ==
    Ready => \A j, k \in Jobs :
        (pc[j] = "sync_generating" /\ IsNextRequest(k)) => ENABLED HealthCheck(k)

\* ------------------------------------------------------------------- C18
\* C18: no step of a request (handler, generator or worker thread), failing
\* ones included, changes model, processor, device, model_loaded or
\* download_progress; and the step in which chat answers HTTP 500 or
\* generate_stream yields its error frame leaves the event loop free, so
\* that the next request is handled against the same loaded model.
C18_FailedGenerationKeepsModelState ==
    /\ [][jobVars' # jobVars => lifecycleVars' = lifecycleVars]_vars
    /\ [][\A j \in Jobs :
            (pc[j] # pc'[j] /\ pc'[j] \in {"failed500", "yielded_error"})
            => (loop' = Idle /\ model_loaded' /\ model' = "loaded"
                    /\ processor' = "loaded" /\ device' = "set")]_vars

\* generate raised for a non-streaming request and the chat request after
\* it got its completion
C18_Witness ==
    \E j, k \in Jobs :
        /\ j < k
        /\ pc[j] = "failed500" /\ "generate" \in calls[j]
        /\ endpoint[k] = "chat" /\ pc[k] = "answered" /\ resp[k].status = 200

\* ------------------------------------------------------------------- C19
\* the JSON fields of a response body: an HTTPException is rendered as
\* {"detail": ...}, a completion as a ChatResponse (lines 89-96)
JsonFields(body) ==
    IF body[1] = "detail" THEN {"detail"}
    ELSE IF body[1] = "content"
    THEN {"model", "created_at", "message", "done", "total_duration",
          "eval_count", "prompt_eval_count"}
    ELSE IF body[1] = "health"
    THEN {"status", "model_loaded", "device", "mps_available", "download_progress"}
    ELSE {}

\* what a caller can use without reading message strings
ResponseShape(r) == <<r.status, JsonFields(r.body)>>

\* which of chat's failure responses r is: the 503 of line 417, the 503 of
\* lines 419-422, or the 500 of line 477
ResponseKind(r) ==
    IF r.status = 503 /\ r.body = FailedDetail THEN "load_failed"
    ELSE IF r.status = 503 THEN "loading"
    ELSE IF r.status = 500 THEN "generation_failed"
    ELSE "other"

\* C19: two /api/chat failure responses of different kinds (model loading,
\* load failed, generation failed) differ in HTTP status or in the set of
\* JSON fields of the body.
C19_FailureKindsDifferInShape ==
    \A j, k \in Jobs :
        (/\ ResponseKind(resp[j]) # "other"
         /\ ResponseKind(resp[k]) # "other"
         /\ ResponseKind(resp[j]) # ResponseKind(resp[k]))
        => ResponseShape(resp[j]) # ResponseShape(resp[k])

\* ------------------------------------------------------------------- C20
\* C20: the status of every GET /api/health response is 'failed' when the
\* load has failed, 'healthy' when the model is ready (loaded and
\* self-tested), and 'loading' otherwise (load pending or in progress).
C20_HealthStatusFollowsLifecycle ==
    [][\A j \in Jobs :
          (pc[j] = "none" /\ endpoint'[j] = "health")
          => resp'[j].body[2] = (IF loadPc = "failed" THEN "failed"
                                 ELSE IF Ready THEN "healthy"
                                 ELSE "loading")]_vars

\* ------------------------------------------------------------------- C21
\* C21: in every state /api/health and /api/chat agree: a chat request is
\* answered 503 exactly when a health request handled in the same state
\* would not report model_loaded true with status 'healthy'; and when the
\* model is not loaded with progress p >= 0, the percentage in the detail of
\* the 503 is the download_progress of the health response (p as a fraction,
\* times 100), for every value p the load writes.
C21_HealthAndChatAgree ==
    /\ [][\A j \in Jobs :
            (pc[j] = "none" /\ endpoint'[j] = "chat")
            => /\ (resp'[j].status = 503)
                    <=> ~(HealthBody[3] /\ HealthBody[2] = "healthy")
               /\ (~HealthBody[3] /\ HealthBody[4] >= 0)
                    => resp'[j].body[3] = <<HealthBody[4] * 10, "%">>]_vars
    /\ [](\A p \in {0, 1, 2, 3, 8, 10} :
            NotLoadedResponse(p).body[3] = <<p * 10, "%">>)

\* before the load started one request asked /api/health and another was
\* refused by /api/chat, both seeing progress 0
C21_Witness ==
    \E j, k \in Jobs :
        /\ endpoint[j] = "health"
        /\ resp[j].body = <<"health", "loading", FALSE, 0>>
        /\ endpoint[k] = "chat"
        /\ resp[k] = [status |-> 503, body |-> LoadingDetail(0)]

\* ------------------------------------------------------------------- C23
\* C23: the HTTP 500 with which a non-streaming /api/chat request is
\* answered when generation raises has a JSON body with the fields error and
\* type (stated for a server whose load succeeded).
C23_Http500BodyIsErrorAndType ==
    Ready => \A j \in Jobs :
        (endpoint[j] = "chat" /\ resp[j].status = 500)
        => JsonFields(resp[j].body) = {"error", "type"}

\* ---------------------------------------------------------------------------
\* One /api/chat request, from its JSON body to the calls made to the
\* processor and the model (inference_server.py; model and processor loaded,
\* so the guards of lines 415-422 have passed)
\* ---------------------------------------------------------------------------

\* the roles process_multimodal_messages has a branch for
KnownRoles == {"system", "user", "assistant"}

\* roles a client may send: ChatMessage.role is any str
Roles == KnownRoles \cup {"tool"}

\* ChatMessage.content: any str, the empty one included
Contents == {"", "hi"}

\* ChatMessage.images: a list of base64 strings; an image is <<id, ok>>, id
\* naming the image and ok telling whether b64decode and Image.open accept it
ImageLists ==
    UNION {{[i \in 1..n |-> <<i, f[i]>>] : f \in [1..n -> BOOLEAN]} : n \in 0..MaxImages}

\* the ChatMessage values of a request (images on user messages, the only
\* ones whose images are read)
Messages ==
    {[role |-> r, content |-> c, images |-> <<>>] : r \in Roles \ {"user"}, c \in Contents}
    \cup {[role |-> "user", content |-> c, images |-> im] : c \in Contents, im \in ImageLists}

\* ChatRequest bodies: model is required, messages is any list, stream a flag
Requests ==
    {[model_given |-> g, stream |-> s, messages |-> ms] :
        g \in BOOLEAN, s \in BOOLEAN,
        ms \in UNION {[1..n -> Messages] : n \in 0..MaxMessages}}

\* {"type": "text", "text": msg.content}
TextSegment(content) == <<"text", content>>

\* {"type": "image", "image": img}
ImageSegment(image) == <<"image", image[1]>>

RECURSIVE DecodedImagesStopAtBad(_)
\* variant: the first undecodable image ends the loop over the images
DecodedImagesStopAtBad(images) ==
    IF images = <<>> \/ ~Head(images)[2] THEN <<>>
    ELSE <<ImageSegment(Head(images))>> \o DecodedImagesStopAtBad(Tail(images))

RECURSIVE DecodedImages(_)
\* lines 263-271: each image in turn is decoded and appended; a failure to
\* decode is caught, logged and the image skipped
DecodedImages(images) ==
    IF images = <<>> THEN <<>>
    ELSE (IF Head(images)[2] THEN <<ImageSegment(Head(images))>> ELSE <<>>)
         \o DecodedImages(Tail(images))

\* variant: a user message with empty text gets no text segment
ProcessMessageSkipsEmptyText(msg) ==
    IF msg.role = "user"
    THEN <<[role |-> "user",
            content |-> DecodedImages(msg.images)
                        \o (IF msg.content = "" THEN <<>> ELSE <<TextSegment(msg.content)>>)]>>
    ELSE IF msg.role \in {"system", "assistant"}
    THEN <<[role |-> msg.role, content |-> <<TextSegment(msg.content)>>]>>
    ELSE <<>>

\* lines 254-284, the body of the loop: what one message appends
ProcessMessage(msg) ==
    IF msg.role = "system"
    THEN <<[role |-> "system", content |-> <<TextSegment(msg.content)>>]>>
    ELSE IF msg.role = "user"
    THEN <<[role |-> "user",
            content |-> DecodedImages(msg.images) \o <<TextSegment(msg.content)>>]>>
    ELSE IF msg.role = "assistant"
    THEN <<[role |-> "assistant", content |-> <<TextSegment(msg.content)>>]>>
    ELSE <<>>

RECURSIVE ProcessMultimodalMessagesMerging(_)
\* variant: a message of the same role as the one before it is dropped
ProcessMultimodalMessagesMerging(messages) ==
    IF messages = <<>> THEN <<>>
    ELSE IF Len(messages) > 1 /\ messages[1].role = messages[2].role
    THEN ProcessMultimodalMessagesMerging(Tail(messages))
    ELSE ProcessMessage(Head(messages)) \o ProcessMultimodalMessagesMerging(Tail(messages))

RECURSIVE ProcessMultimodalMessages(_)
\* process_multimodal_messages: the messages in order, each appending what
\* its branch appends
ProcessMultimodalMessages(messages) ==
    IF messages = <<>> THEN <<>>
    ELSE ProcessMessage(Head(messages)) \o ProcessMultimodalMessages(Tail(messages))

\* a request body has arrived at POST /api/chat
InitOneRequest ==
    /\ program = "inference_server"
    /\ InitServer
    /\ InitLazy
    /\ InitText
    /\ InitSampling
    /\ InitSimple
    /\ request \in Requests
    /\ req_pc = "received"
    /\ req_status = 0
    /\ processed_messages = <<>>
    /\ backend = <<>>

\* the body is parsed into ChatRequest before chat() is called: without the
\* required field model the answer is 422 and chat() never runs
ValidateRequest ==
    /\ req_pc = "received"
    /\ IF request.model_given
       THEN req_pc' = "in_chat" /\ req_status' = 0
       ELSE req_pc' = "rejected" /\ req_status' = 422
    /\ UNCHANGED <<request, processed_messages, backend>>
    /\ UNCHANGED reqForeignVars

\* line 440 (non-streaming) or line 292 (streaming, the response already begun
\* with status 200): processed_messages = process_multimodal_messages(...)
ProcessMessages ==
    /\ req_pc = "in_chat"
    /\ processed_messages' = ProcessMultimodalMessages(request.messages)
    /\ req_status' = IF request.stream THEN 200 ELSE 0
    /\ req_pc' = "processed"
    /\ UNCHANGED <<request, backend>>
    /\ UNCHANGED reqForeignVars

\* lines 442-448 / 295-301: processor.apply_chat_template(processed_messages);
\* when it raises, the non-streaming path answers 500 and the streaming path
\* ends with an error frame
ApplyChatTemplate(ok) ==
    /\ req_pc = "processed"
    /\ backend' = Append(backend, <<"apply_chat_template", processed_messages>>)
    /\ req_pc' = IF ok THEN "templated" ELSE "failed"
    /\ req_status' = IF ok \/ request.stream THEN req_status ELSE 500
    /\ UNCHANGED <<request, processed_messages>>
    /\ UNCHANGED reqForeignVars

\* lines 450-458 / 317-331: model.generate on the templated inputs
Generate(ok) ==
    /\ req_pc = "templated"
    /\ backend' = Append(backend, <<"generate", processed_messages>>)
    /\ req_pc' = IF ok THEN "generated" ELSE "failed"
    /\ req_status' = IF request.stream THEN req_status ELSE IF ok THEN 200 ELSE 500
    /\ UNCHANGED <<request, processed_messages>>
    /\ UNCHANGED reqForeignVars

OneRequestNext ==
    \/ ValidateRequest
    \/ ProcessMessages
    \/ \E ok \in BOOLEAN : ApplyChatTemplate(ok)
    \/ \E ok \in BOOLEAN : Generate(ok)

\* one request on a loaded model, every body of the bounded set
OneRequest == InitOneRequest /\ [][OneRequestNext]_vars

\* the messages of the request that have a branch, in order
KnownMessages == SelectSeq(request.messages, LAMBDA m : m.role \in KnownRoles)

\* process_multimodal_messages has returned for the request
Processed == req_pc \in {"processed", "templated", "generated", "failed"}

\* ------------------------------------------------------------------- C22
\* C22: a request whose messages list is empty, or whose model field is
\* missing, is answered with a 4xx status and nothing of it is passed to
\* apply_chat_template or to model.generate.
C22_ProtocolErrorNeverReachesBackend ==
    (req_pc # "none" /\ (request.messages = <<>> \/ ~request.model_given))
    => /\ backend = <<>>
       /\ req_status # 0 => req_status \in 400..499

\* ------------------------------------------------------------------- C25
\* the decodable images of a list, in their order
Decodable(images) == SelectSeq(images, LAMBDA im : im[2])

\* the messages as they would be had the undecodable images not been sent
WithoutBadImages(messages) ==
    [i \in 1..Len(messages) |->
        [messages[i] EXCEPT !.images = Decodable(messages[i].images)]]

\* C25: an undecodable image does not make process_multimodal_messages
\* raise; for a user message with n images of which k fail to decode the
\* content is exactly the n-k decodable images in their original order
\* followed by the text, and the whole result is the one the request would
\* have without the bad images.
C25_BadImagesAreDropped ==
    /\ req_pc = "in_chat" => ENABLED ProcessMessages
    /\ Processed =>
        /\ Len(processed_messages) = Len(KnownMessages)
        /\ \A i \in 1..Len(KnownMessages) :
            KnownMessages[i].role = "user" =>
                LET good == Decodable(KnownMessages[i].images)
                IN  processed_messages[i].content =
                        [k \in 1..(Len(good) + 1) |->
                            IF k <= Len(good) THEN <<"image", good[k][1]>>
                            ELSE <<"text", KnownMessages[i].content>>]
        /\ processed_messages = ProcessMultimodalMessages(WithoutBadImages(request.messages))

\* a request with a corrupt image before a valid one was processed, templated
\* and generated from: only the valid image and the text are in the content
C25_Witness ==
    /\ req_pc = "generated"
    /\ \E i \in 1..Len(request.messages) :
        /\ request.messages[i].role = "user"
        /\ request.messages[i].images = <<<<1, FALSE>>, <<2, TRUE>>>>
        /\ request.messages[i].content = "hi"
    /\ \E i \in 1..Len(processed_messages) :
        processed_messages[i].content = <<<<"image", 2>>, <<"text", "hi">>>>

\* ------------------------------------------------------------------- C26
\* C26: the messages of role system, user or assistant are mapped one-to-one,
\* in input order, to entries of the same role and the same text, none
\* reordered, merged or dropped as a duplicate; the result is the value of the
\* function on the request's messages (a second call gives the same), and the
\* call changes nothing of the server's state.
C26_OrderPreservingNormalization ==
    /\ [](Processed =>
            /\ Len(processed_messages) = Len(KnownMessages)
            /\ \A i \in 1..Len(KnownMessages) :
                /\ processed_messages[i].role = KnownMessages[i].role
                /\ SelectSeq(processed_messages[i].content, LAMBDA s : s[1] = "text")
                       = <<<<"text", KnownMessages[i].content>>>>
            /\ processed_messages = ProcessMultimodalMessages(request.messages))
    /\ [][req_pc = "in_chat" => UNCHANGED <<serverVars, lazyVars, request, backend>>]_vars

\* two equal assistant messages in a row were processed: both are in the result
C26_Witness ==
    /\ Processed
    /\ Len(request.messages) = 2
    /\ request.messages[1] = request.messages[2]
    /\ request.messages[1].role = "assistant"
    /\ Len(processed_messages) = 2
    /\ processed_messages[1] = processed_messages[2]

\* ------------------------------------------------------------------- C27
\* C27: the content of every user entry has exactly one text segment, which
\* is its last element and holds the message text unchanged, whatever the
\* images (all undecodable included) and the text (empty included).
C27_UserContentEndsWithItsText ==
    Processed =>
        \A i \in 1..Len(KnownMessages) :
            KnownMessages[i].role = "user" =>
                LET c == processed_messages[i].content
                IN  /\ Len(c) >= 1
                    /\ c[Len(c)] = <<"text", KnownMessages[i].content>>
                    /\ \A k \in 1..(Len(c) - 1) : c[k][1] # "text"

\* a user message with empty text whose images all failed to decode: its
\* content is the empty text segment alone
C27_Witness ==
    /\ Processed
    /\ \E i \in 1..Len(KnownMessages) :
        /\ KnownMessages[i].role = "user"
        /\ KnownMessages[i].content = ""
        /\ KnownMessages[i].images = <<<<1, FALSE>>, <<2, FALSE>>>>
        /\ processed_messages[i].content = <<<<"text", "">>>>

\* ------------------------------------------------------------------- C28
\* C28: a message of a role other than system, user or assistant is never
\* passed to the backend, and a request that has such a message never has
\* the backend called with an empty message list.
C28_UnknownRoleNeverEmptiesBackendInput ==
    (\E i \in 1..Len(request.messages) : request.messages[i].role \notin KnownRoles)
    => \A k \in 1..Len(backend) :
        /\ backend[k][2] # <<>>
        /\ \A i \in 1..Len(backend[k][2]) : backend[k][2][i].role \in KnownRoles

\* ---------------------------------------------------------------------------
\* The sampling parameters of two /api/chat requests, each from its
\* request.options to the keyword arguments of model.generate
\* (inference_server.py, both paths); the requests interleave at the points
\* where a handler or generator gives up the event loop
\* ---------------------------------------------------------------------------

\* the keys of options that the server reads
OptionKeys == {"temperature", "top_p", "top_k", "num_predict"}

\* values a client gives under each key
OptionValues(key) ==
    CASE key = "temperature" -> {0, 3, 15}
      [] key = "top_p" -> {5}
      [] key = "top_k" -> {10}
      [] key = "num_predict" -> {16}

\* the dicts a client gives as options: any of the keys, each with a value
OptionDicts ==
    {d \in UNION {[K -> {0, 3, 5, 10, 15, 16}] : K \in SUBSET OptionKeys} :
        \A k \in DOMAIN d : d[k] \in OptionValues(k)}

\* ChatRequest.options: Optional[Dict[str, Any]] = None
RequestOptions ==
    {[given |-> FALSE, dict |-> <<>>]}
    \cup {[given |-> TRUE, dict |-> d] : d \in OptionDicts}

\* options.get(key, default)
OptionsGet(opts, key, default) ==
    IF key \in DOMAIN opts THEN opts[key] ELSE default

\* variant: a temperature of 0 samples too
DoSampleNonNegative(temperature) == temperature >= 0

\* "do_sample": temperature > 0 (line 326), do_sample=... > 0 (line 457)
DoSample(temperature) == temperature > 0

\* two requests with some options have arrived at POST /api/chat
InitSamplingRequest ==
    /\ program = "inference_server"
    /\ InitServer
    /\ InitLazy
    /\ InitText
    /\ InitRequest
    /\ InitSimple
    /\ request_options \in [SamplingRequests -> RequestOptions]
    /\ sampling_stream \in [SamplingRequests -> BOOLEAN]
    /\ sampling_pc = [r \in SamplingRequests |-> "in_chat"]
    /\ options = [r \in SamplingRequests |-> <<>>]
    /\ generation_kwargs = [r \in SamplingRequests |-> <<>>]
    /\ module_defaults = ModuleDefaults

\* no other request is between the entry of chat() and its return
NoneInHandler(r) ==
    \A q \in SamplingRequests \ {r} :
        sampling_pc[q] = "options_read" => sampling_stream[q]

\* ReadOptions with the request's temperature also stored as the module's
\* TEMPERATURE
ReadOptionsSetsDefault(r) ==
    /\ sampling_pc[r] = "in_chat"
    /\ NoneInHandler(r)
    /\ options' = [options EXCEPT ![r] =
            IF request_options[r].given THEN request_options[r].dict ELSE <<>>]
    /\ module_defaults' =
            IF request_options[r].given /\ "temperature" \in DOMAIN request_options[r].dict
            THEN [module_defaults EXCEPT !.temperature = request_options[r].dict["temperature"]]
            ELSE module_defaults
    /\ sampling_pc' = [sampling_pc EXCEPT ![r] = "options_read"]
    /\ UNCHANGED <<request_options, sampling_stream, generation_kwargs>>
    /\ UNCHANGED samplingForeignVars

\* line 426: options = request.options or {}
ReadOptions(r) ==
    /\ sampling_pc[r] = "in_chat"
    /\ NoneInHandler(r)
    /\ options' = [options EXCEPT ![r] =
            IF request_options[r].given THEN request_options[r].dict ELSE <<>>]
    /\ sampling_pc' = [sampling_pc EXCEPT ![r] = "options_read"]
    /\ UNCHANGED <<request_options, sampling_stream, generation_kwargs, module_defaults>>
    /\ UNCHANGED samplingForeignVars

\* generate_stream, lines 304-327, at the generator's first resumption, after
\* chat() has returned: the four values are read into locals and put in
\* generation_kwargs with do_sample = temperature > 0
StreamGenerationKwargs(r) ==
    /\ sampling_pc[r] = "options_read"
    /\ sampling_stream[r]
    /\ NoneInHandler(r)
    /\ LET temperature == OptionsGet(options[r], "temperature", module_defaults.temperature)
           max_new_tokens == OptionsGet(options[r], "num_predict", module_defaults.max_new_tokens)
           top_p == OptionsGet(options[r], "top_p", module_defaults.top_p)
           top_k == OptionsGet(options[r], "top_k", module_defaults.top_k)
       IN  generation_kwargs' = [generation_kwargs EXCEPT ![r] =
               [max_new_tokens |-> max_new_tokens,
                temperature |-> temperature,
                top_p |-> top_p,
                top_k |-> top_k,
                do_sample |-> DoSample(temperature)]]
    /\ sampling_pc' = [sampling_pc EXCEPT ![r] = "called"]
    /\ UNCHANGED <<request_options, sampling_stream, options, module_defaults>>
    /\ UNCHANGED samplingForeignVars

\* chat, lines 451-458, in the same run of the handler as line 426:
\* model.generate(**inputs, max_new_tokens=..., ...)
ChatGenerationKwargs(r) ==
    /\ sampling_pc[r] = "options_read"
    /\ ~sampling_stream[r]
    /\ generation_kwargs' = [generation_kwargs EXCEPT ![r] =
           [max_new_tokens |-> OptionsGet(options[r], "num_predict", module_defaults.max_new_tokens),
            temperature |-> OptionsGet(options[r], "temperature", module_defaults.temperature),
            top_p |-> OptionsGet(options[r], "top_p", module_defaults.top_p),
            top_k |-> OptionsGet(options[r], "top_k", module_defaults.top_k),
            do_sample |-> DoSample(OptionsGet(options[r], "temperature",
                                              module_defaults.temperature))]]
    /\ sampling_pc' = [sampling_pc EXCEPT ![r] = "called"]
    /\ UNCHANGED <<request_options, sampling_stream, options, module_defaults>>
    /\ UNCHANGED samplingForeignVars

SamplingNext ==
    \/ \E r \in SamplingRequests : ReadOptions(r)
    \/ \E r \in SamplingRequests : StreamGenerationKwargs(r)
    \/ \E r \in SamplingRequests : ChatGenerationKwargs(r)

\* two requests' options on either path, every options value of the set
Sampling == InitSamplingRequest /\ [][SamplingNext]_vars

\* ------------------------------------------------------------------- C24
\* C24: on both paths a request whose options give temperature 0 has the
\* backend called with do_sample false; one with a temperature above 0, or
\* with none (the default 0.7 applies), with do_sample true; and each of
\* temperature, top_p, top_k and num_predict (as max_new_tokens) is the
\* request's value when the key is present and the module default otherwise.
C24_SamplingParameters ==
    \A r \in SamplingRequests :
    sampling_pc[r] = "called" =>
        LET given == request_options[r].dict
            has(k) == request_options[r].given /\ k \in DOMAIN given
            kwargs == generation_kwargs[r]
        IN  /\ (has("temperature") /\ given["temperature"] = 0)
                => ~kwargs.do_sample
            /\ (has("temperature") /\ given["temperature"] > 0)
                => kwargs.do_sample
            /\ ~has("temperature")
                => kwargs.do_sample /\ kwargs.temperature = 7
            /\ kwargs.temperature =
                   IF has("temperature") THEN given["temperature"] ELSE TEMPERATURE
            /\ kwargs.top_p =
                   IF has("top_p") THEN given["top_p"] ELSE TOP_P
            /\ kwargs.top_k =
                   IF has("top_k") THEN given["top_k"] ELSE TOP_K
            /\ kwargs.max_new_tokens =
                   IF has("num_predict") THEN given["num_predict"] ELSE MAX_NEW_TOKENS

\* a non-streaming request with temperature 0 and no top_k: generate was
\* called with do_sample false and the default top_k
C24_Witness ==
    \E r \in SamplingRequests :
        /\ sampling_pc[r] = "called"
        /\ ~sampling_stream[r]
        /\ request_options[r].given
        /\ DOMAIN request_options[r].dict = {"temperature", "num_predict"}
        /\ request_options[r].dict["temperature"] = 0
        /\ generation_kwargs[r] = [max_new_tokens |-> 16, temperature |-> 0,
                                   top_p |-> TOP_P, top_k |-> TOP_K, do_sample |-> FALSE]

\* ------------------------------------------------------------------- C29
\* the number of whitespace-separated words of a text: the positions where a
\* word begins
WordStarts(text) ==
    Cardinality({i \in 1..Len(text) :
        text[i] \notin Whitespace /\ (i = 1 \/ text[i - 1] \in Whitespace)})

\* the contents of the done=false frames among the first n frames
StreamedContents(n) ==
    LET fs == SelectSeq(SubSeq(stream_frames, 1, n), LAMBDA f : ~f.done)
    IN  [i \in 1..Len(fs) |-> fs[i].content]

\* C29: in a streaming response total_duration, eval_count and
\* prompt_eval_count are null on every done=false frame and all present on
\* the done=true frame, where eval_count is the number of
\* whitespace-separated words of the concatenation of all streamed tokens
\* and prompt_eval_count the length of the input token sequence.
C29_CountersOnlyOnFinalFrame ==
    /\ stream_done =>
        (stream_frames # <<>> /\ stream_frames[Len(stream_frames)].done)
    /\ \A i \in 1..Len(stream_frames) :
        LET f == stream_frames[i]
        IN  IF f.done
            THEN /\ i = Len(stream_frames)
                 /\ Len(f.total_duration) = 1
                 /\ f.eval_count = <<WordStarts(Concat(StreamedContents(i)))>>
                 /\ f.prompt_eval_count = <<Len(input_ids)>>
            ELSE /\ f.total_duration = <<>>
                 /\ f.eval_count = <<>>
                 /\ f.prompt_eval_count = <<>>

\* a completion of two words streamed in two frames after a prompt of three
\* tokens: the final frame counts two words and three prompt tokens
C29_Witness ==
    /\ stream_done
    /\ Len(stream_frames) = 3
    /\ Concat(contents) = <<"a", " ", "a">>
    /\ stream_frames[3].eval_count = <<2>>
    /\ stream_frames[3].prompt_eval_count = <<3>>
    /\ stream_frames[1].eval_count = <<>>

\* ------------------------------------------------------------------- C30
\* C30: the total_duration of the done=true frame of a streaming response,
\* and of a non-streaming response, is the elapsed time of the request's
\* generation: the clock at completion minus the clock at the start of the
\* call.
C30_TotalDurationIsElapsedTime ==
    [][/\ (~stream_done /\ stream_done')
            => stream_frames'[Len(stream_frames')].total_duration
                   = <<clock' - started_at>>
       /\ (response_counters = <<>> /\ response_counters' # <<>>)
            => response_counters'[1].total_duration = <<clock' - started_at>>]_vars

C32_PullIsNoOp ==
    [][\A j \in Jobs :
        (pc[j] = "none" /\ endpoint'[j] = "pull")
        => /\ UNCHANGED <<model, processor, device, model_loaded, download_progress>>
           /\ UNCHANGED <<loadPc, loop, worker, calls>>
           /\ resp'[j].status = 200
           /\ (resp'[j].body = <<"pull", "Model already loaded">>) <=> model_loaded
           /\ ~model_loaded
                => resp'[j].body = <<"pull", "Model loading on startup", download_progress>>]_vars

\* /api/pull was asked before the load began and after it failed: both
\* answers carry the progress of the moment
C32_Witness ==
    \E j, k \in Jobs :
        /\ endpoint[j] = "pull"
        /\ resp[j].body = <<"pull", "Model loading on startup", 0>>
        /\ endpoint[k] = "pull"
        /\ resp[k].body = <<"pull", "Model loading on startup", -10>>
        /\ loadPc = "failed"

\* ------------------------------------------------------------------- C33
\* C33: once model_loaded is true nothing sets it back to false: not a
\* failing self-test, a failing generation, pull, show, health, tags, a
\* client disconnect, nor the shutdown.
C33_ModelLoadedIsMonotonic == [][model_loaded => model_loaded']_vars

\* the self-test failed after model_loaded was set, and a generation failed
\* too: model_loaded is still true
C33_Witness ==
    /\ model_loaded
    /\ loadPc = "failed"
    /\ \E j \in Jobs : pc[j] = "failed500"
    /\ \E j \in Jobs : endpoint[j] = "pull"

\* ------------------------------------------------------------------- C34
\* C34: while the server is serving, model_loaded true means model,
\* processor and device are all set: each is assigned before model_loaded is,
\* and none of them is cleared by anything but the shutdown part of lifespan.
C34_LoadedMeansAllSet ==
    /\ [](serving /\ model_loaded
            => model # "None" /\ processor # "None" /\ device # "None")
    /\ [][serving'
            => /\ model # "None" => model' # "None"
               /\ processor # "None" => processor' # "None"
               /\ device # "None" => device' # "None"]_vars

\* a request was answered by the loaded server, which has all three set
C34_Witness ==
    /\ serving
    /\ model_loaded
    /\ loop = Idle
    /\ model = "loaded" /\ processor = "loaded" /\ device = "set"
    /\ \E j \in Jobs : endpoint[j] = "show" /\ resp[j].status = 200

\* ------------------------------------------------------------------- C35
\* C35: a stream=true request on a loaded model has HTTP status 200 whatever
\* the generation does: a failure caught by generate_stream is reported only
\* as one frame {error, type: generation_error} without a done field, the
\* last frame of the stream, and no frame already sent is taken back.
C35_StreamFailureIsInBand ==
    /\ [](\A j \in Jobs :
            (endpoint[j] = "chat" /\ stream[j] /\ pc[j] # "rejected")
            => /\ resp[j] = [status |-> 200, body |-> <<"event-stream">>]
               /\ ErrorCount(j) <= 1
               /\ \A i \in 1..Len(frames[j]) :
                    frames[j][i].type = "generation_error"
                    => i = Len(frames[j]) /\ frames[j][i].done = "absent"
               /\ pc[j] \in {"yielded_error", "failed500"}
                    => frames[j] # <<>> /\ frames[j][Len(frames[j])] = ErrorFrame)
    /\ [][\A j \in Jobs : IsPrefix(frames[j], frames'[j])]_vars

\* apply_chat_template raised in a streaming request: status 200, the error
\* frame sent, the generator returned
C35_Witness ==
    \E j \in Jobs :
        /\ endpoint[j] = "chat" /\ stream[j]
        /\ resp[j].status = 200
        /\ frames[j] = <<ErrorFrame>>
        /\ pc[j] = "finished"
        /\ "thread" \notin calls[j]

\* ------------------------------------------------------------------- C36
\* C36: handling a chat request never changes the module defaults, and what
\* the backend is called with for a request depends on that request's own
\* options only: requests with equal options get equal parameters whatever
\* the other request asked for and whenever it ran, and a step of one
\* request changes nothing of the other's options or parameters.
C36_NoLeakBetweenRequests ==
    /\ [](module_defaults = [temperature |-> 7, top_p |-> 9, top_k |-> 40,
                             max_new_tokens |-> 2048])
    /\ [](\A r, q \in SamplingRequests :
            (/\ sampling_pc[r] = "called"
             /\ sampling_pc[q] = "called"
             /\ (IF request_options[r].given THEN request_options[r].dict ELSE <<>>)
                    = (IF request_options[q].given THEN request_options[q].dict ELSE <<>>))
            => generation_kwargs[r] = generation_kwargs[q])
    /\ [][\A r \in SamplingRequests :
            sampling_pc'[r] = sampling_pc[r]
            => /\ options'[r] = options[r]
               /\ generation_kwargs'[r] = generation_kwargs[r]
               /\ request_options'[r] = request_options[r]]_vars

\* a streaming request that set all four keys and a non-streaming one
\* without options were both served: the second got the four module defaults
C36_Witness ==
    \E r, q \in SamplingRequests :
        /\ sampling_pc[r] = "called" /\ sampling_pc[q] = "called"
        /\ sampling_stream[r] /\ ~sampling_stream[q]
        /\ DOMAIN request_options[r].dict = OptionKeys
        /\ generation_kwargs[r] = [max_new_tokens |-> 16, temperature |-> 0,
                                   top_p |-> 5, top_k |-> 10, do_sample |-> FALSE]
        /\ ~request_options[q].given
        /\ generation_kwargs[q] = [max_new_tokens |-> 2048, temperature |-> 7,
                                   top_p |-> 9, top_k |-> 40, do_sample |-> TRUE]

\* ------------------------------------------------------------------- C37
\* C37: in inference_server_lazy.py a failed load_model leaves model and
\* processor both None, so between requests a model that is set has its
\* processor set; a request that calls load_model enters the load exactly
\* when model is None, so a failed load is tried again by the next request;
\* and a model that is set between requests is never changed again.
C37_LazyLoadFailureIsClean ==
    /\ [](lazy_loop = Idle => (lazy_model # "None" => lazy_processor # "None"))
    /\ [][\A j \in Jobs :
            (LazyInLoad(j) /\ lazy_pc'[j] \in {"failed500", "yielded_error"})
            => lazy_model' = "None" /\ lazy_processor' = "None"]_vars
    /\ [][\A j \in Jobs :
            (lazy_pc[j] \in {"none", "created"} /\ lazy_pc'[j] \notin {"none", "created"})
            => (lazy_pc'[j] = "at110") <=> (lazy_model = "None")]_vars
    /\ [][(lazy_model # "None" /\ \A j \in Jobs : ~LazyInLoad(j))
            => lazy_model' = lazy_model /\ lazy_processor' = lazy_processor]_vars

\* the first request's load failed with the libraries imported; the second
\* request is in load_model's body again, about to load the processor
C37_Witness ==
    /\ lazy_pc[1] = "failed500"
    /\ lazy_model = "None"
    /\ lazy_processor = "None"
    /\ lazy_pc[2] = "at123"
    /\ lazy_torch = "loaded"

\* the contents of the frames generate_stream has sent
SimpleContents == [k \in 1..Len(simple_stream.frames) |-> simple_stream.frames[k].content]

\* C38: generate_stream of simple_server.py sends the consecutive
\* 10-character chunks of the text, the last one possibly shorter: the k-th
\* frame holds the characters 10(k-1)+1 .. 10k of the text, every frame is
\* non-empty, and a frame has done=true exactly when it reaches the end of the
\* text.  When the generator has returned, the contents concatenated in order
\* are the text and, for a non-empty text, exactly the last frame has
\* done=true; for the empty text no frame was sent at all.
C38_FramesAreTheChunksOfTheText ==
    LET generated == simple_stream.text
        sent == simple_stream.frames
        n == Len(sent)
    IN  /\ \A k \in 1..n :
            /\ Len(sent[k].content) \in 1..chunk_size
            /\ k < n => Len(sent[k].content) = chunk_size
            /\ \A c \in 1..Len(sent[k].content) :
                    sent[k].content[c] = generated[chunk_size * (k - 1) + c]
            /\ sent[k].done <=> chunk_size * (k - 1) + Len(sent[k].content) = Len(generated)
        /\ simple_stream.pc = "returned" =>
            /\ Concat(SimpleContents) = generated
            /\ generated = <<>> => sent = <<>>
            /\ generated # <<>> =>
                /\ n >= 1
                /\ \A k \in 1..n : sent[k].done <=> k = n

\* a text of 23 varied characters was streamed to its end: two full chunks and
\* a third of 3 characters, which alone has done=true
C38_Witness ==
    /\ simple_stream.pc = "returned"
    /\ Len(simple_stream.text) = 2 * chunk_size + 3
    /\ Len(simple_stream.frames) = 3
    /\ Len(simple_stream.frames[3].content) = 3
    /\ simple_stream.frames[3].done
    /\ ~simple_stream.frames[2].done
    /\ simple_stream.frames[1].content # simple_stream.frames[2].content

\* C39: after a failed load_model, model is None and download_progress is 0.0;
\* every /api/health body then says "loading", model_loaded false and
\* download_progress 0.0, and every /api/chat is answered 503.
C39_FailedLoadLooksUnstarted ==
    simple_run.startup = "failed" =>
        /\ simple_globals.model = "None"
        /\ simple_globals.download_progress = 0
        /\ simple_run.health \in {<<>>, <<"loading", FALSE, 0>>}
        /\ simple_run.chat \in {0, 503}

=============================================================================
